---- MODULE Spec2Model ----
(***************************************************************************)
(* Model of scraper.py: the text/price utilities, the Nestoria zone slug,  *)
(* the filter engine (_filter_df_strict, _filter_by_keywords) and the      *)
(* aggregator run_scrapers.                                                *)
(*                                                                         *)
(* Python strings are sequences of one-character strings.  An Optional     *)
(* value is None (the empty tuple) or Some(x) (the one-element tuple).     *)
(***************************************************************************)
EXTENDS Integers, Sequences, FiniteSets, TLC

VARIABLES pc, args, ret, returned, frames, heap

vars == <<pc, args, ret, returned, frames, heap>>

None == <<>>
Some(x) == <<x>>

(***************************************************************************)
(* Python str primitives                                                   *)
(***************************************************************************)
UpperCase == <<"A","B","C","D","E","F","G","H","I","J","K","L","M",
               "N","O","P","Q","R","S","T","U","V","W","X","Y","Z">>
LowerCase == <<"a","b","c","d","e","f","g","h","i","j","k","l","m",
               "n","o","p","q","r","s","t","u","v","w","x","y","z">>
DigitChars == <<"0","1","2","3","4","5","6","7","8","9">>

IsSpace(c) == c \in {" ", "\t", "\n"}
IsDigit(c) == c \in {DigitChars[i] : i \in 1..Len(DigitChars)}
DigitVal(c) == (CHOOSE i \in 1..Len(DigitChars) : DigitChars[i] = c) - 1

\* the accented letters of the zone names, and what slugify_zone makes of them
UpperAccents == <<"Á","É","Í","Ó","Ú","Ñ","Ü">>
LowerAccents == <<"á","é","í","ó","ú","ñ","ü">>
Unaccented == <<"a","e","i","o","u","n","u">>

AsciiUpper == {UpperCase[i] : i \in 1..Len(UpperCase)}
AsciiLower == {LowerCase[i] : i \in 1..Len(LowerCase)}
UpperAll == UpperCase \o UpperAccents
LowerAll == LowerCase \o LowerAccents
UpperSet == {UpperAll[i] : i \in 1..Len(UpperAll)}
LowerSet == {LowerAll[i] : i \in 1..Len(LowerAll)}
LowerOf == [c \in UpperSet |-> LowerAll[CHOOSE i \in 1..Len(UpperAll) : UpperAll[i] = c]]
UpperOf == [c \in LowerSet |-> UpperAll[CHOOSE i \in 1..Len(LowerAll) : LowerAll[i] = c]]

lower_char(c) == IF c \in UpperSet THEN LowerOf[c] ELSE c
upper_char(c) == IF c \in LowerSet THEN UpperOf[c] ELSE c

\* str.lower()
lower(s) == [i \in 1..Len(s) |-> lower_char(s[i])]
\* str.upper(), used only to build mixed-case inputs
upper(s) == [i \in 1..Len(s) |-> upper_char(s[i])]

RECURSIVE lstrip(_)
lstrip(s) == IF s # <<>> /\ IsSpace(Head(s)) THEN lstrip(Tail(s)) ELSE s
RECURSIVE rstrip(_)
rstrip(s) ==
    IF s # <<>> /\ IsSpace(s[Len(s)]) THEN rstrip(SubSeq(s, 1, Len(s) - 1)) ELSE s
\* str.strip()
strip(s) == rstrip(lstrip(s))

\* sub in s
Contains(sub, s) ==
    \E i \in 0..(Len(s) - Len(sub)) : SubSeq(s, i + 1, i + Len(sub)) = sub
\* s.startswith(p)
startswith(s, p) == Len(s) >= Len(p) /\ SubSeq(s, 1, Len(p)) = p
\* s.replace(a, b) for one-character a and b
replace_char(s, a, b) == [i \in 1..Len(s) |-> IF s[i] = a THEN b ELSE s[i]]

\* length of the longest prefix of s whose characters all satisfy / all fail IsSpace
RECURSIVE WordLen(_)
WordLen(s) == IF s = <<>> \/ IsSpace(Head(s)) THEN 0 ELSE 1 + WordLen(Tail(s))
\* str.split() with no argument: the whitespace-separated words
RECURSIVE split(_)
split(s) ==
    LET t == lstrip(s)
        n == WordLen(t)
    IN  IF t = <<>> THEN <<>>
        ELSE <<SubSeq(t, 1, n)>> \o split(SubSeq(t, n + 1, Len(t)))

\* int(d) for a non-empty string of digits
RECURSIVE int_of_digits(_)
int_of_digits(d) ==
    IF d = <<>> THEN 0
    ELSE int_of_digits(SubSeq(d, 1, Len(d) - 1)) * 10 + DigitVal(d[Len(d)])

\* re.sub(r"[^\d]", "", s)
sub_non_digits(s) == SelectSeq(s, IsDigit)

\* re.sub(r'\s+', ' ', text)
RECURSIVE collapse_ws(_)
collapse_ws(s) ==
    IF s = <<>> THEN <<>>
    ELSE IF IsSpace(Head(s))
         THEN <<" ">> \o collapse_ws(lstrip(s))
         ELSE <<Head(s)>> \o collapse_ws(Tail(s))

RECURSIVE DigitRunLen(_)
DigitRunLen(s) == IF s = <<>> \/ ~IsDigit(Head(s)) THEN 0 ELSE 1 + DigitRunLen(Tail(s))
\* re.search(r'(\d+)', text): the first maximal run of digits, None when there is none
RECURSIVE search_digits(_)
search_digits(s) ==
    IF s = <<>> THEN None
    ELSE IF IsDigit(Head(s)) THEN Some(SubSeq(s, 1, DigitRunLen(s)))
         ELSE search_digits(Tail(s))

(***************************************************************************)
(* Text/price utilities                                                    *)
(***************************************************************************)
LocalMarker == <<"S", "/">>
ForeignMarker == <<"$">>

\* a faulty variant: the foreign marker is tested before the local one
parse_precio_foreign_first(precio_str) ==
    IF precio_str = <<>> THEN [moneda |-> None, val |-> None]
    ELSE LET moneda == IF Contains(ForeignMarker, precio_str) THEN Some("USD")
                       ELSE IF Contains(LocalMarker, precio_str) THEN Some("S")
                       ELSE None
             nums == sub_non_digits(precio_str)
         IN  [moneda |-> moneda,
              val |-> IF nums # <<>> THEN Some(int_of_digits(nums)) ELSE None]

parse_precio_con_moneda(precio_str) ==
    IF precio_str = <<>> THEN [moneda |-> None, val |-> None]
    ELSE LET s == precio_str
             moneda == IF Contains(LocalMarker, s) \/ startswith(strip(s), LocalMarker)
                       THEN Some("S")
                       ELSE IF Contains(ForeignMarker, s) THEN Some("USD")
                       ELSE None
             nums == sub_non_digits(s)
         IN  [moneda |-> moneda,
              val |-> IF nums # <<>> THEN Some(int_of_digits(nums)) ELSE None]

\* line 61: int(m.group(1)) if m else None
int_of_match(m) == IF m # None THEN Some(int_of_digits(m[1])) ELSE None

_extract_int_from_text(s) == int_of_match(search_digits(collapse_ws(strip(s))))

(***************************************************************************)
(* Nestoria zone slug                                                      *)
(***************************************************************************)
EXCEPCIONES ==
    << <<"m","i","r","a","f","l","o","r","e","s">>,
       <<"t","a","r","a","p","o","t","o">>,
       <<"l","a"," ","m","o","l","i","n","a">>,
       <<"m","a","g","d","a","l","e","n","a">>,
       <<"l","a","m","b","a","y","e","q","u","e">>,
       <<"v","e","n","t","a","n","i","l","l","a">>,
       <<"l","a"," ","v","i","c","t","o","r","i","a">> >>

LimaSlug == <<"l","i","m","a">>
LimaPrefix == <<"l","i","m","a","_">>

build_zona_slug_nestoria(zona_input) ==
    IF zona_input = <<>> \/ strip(zona_input) = <<>> THEN LimaSlug
    ELSE LET z == replace_char(lower(strip(zona_input)), " ", "-")
         IN  IF ~(\E k \in 1..Len(EXCEPCIONES) : lower(EXCEPCIONES[k]) = z)
             THEN z
             ELSE LimaPrefix \o z

(***************************************************************************)
(* Query URLs of the four sources                                          *)
(***************************************************************************)
\* sep.join(parts)
RECURSIVE join(_, _)
join(parts, sep) ==
    IF parts = <<>> THEN <<>>
    ELSE IF Len(parts) = 1 THEN parts[1]
    ELSE parts[1] \o sep \o join(Tail(parts), sep)

\* str(n) of a natural number
RECURSIVE str_nat(_)
str_nat(n) ==
    IF n < 10 THEN <<DigitChars[n + 1]>>
    ELSE str_nat(n \div 10) \o <<DigitChars[(n % 10) + 1]>>
\* str(n) / f"{n}" of an int
str_int(n) == IF n < 0 THEN <<"-">> \o str_nat(0 - n) ELSE str_nat(n)

\* table.get(key, default), the table being a sequence of <<key, value>>
dict_get(table, key, default) ==
    IF \E k \in 1..Len(table) : table[k][1] = key
    THEN table[CHOOSE k \in 1..Len(table) : table[k][1] = key][2]
    ELSE default

\* str.maketrans("áéíóúñü", "aeiounu")
translate_char(c) ==
    IF \E i \in 1..Len(LowerAccents) : LowerAccents[i] = c
    THEN Unaccented[CHOOSE i \in 1..Len(LowerAccents) : LowerAccents[i] = c]
    ELSE c
translate(s) == [i \in 1..Len(s) |-> translate_char(s[i])]

\* re.sub(r"\s+", "-", s)
RECURSIVE sub_ws_hyphen(_)
sub_ws_hyphen(s) ==
    IF s = <<>> THEN <<>>
    ELSE IF IsSpace(Head(s)) THEN <<"-">> \o sub_ws_hyphen(lstrip(s))
         ELSE <<Head(s)>> \o sub_ws_hyphen(Tail(s))

\* a character re.sub(r"[^a-z0-9\-]", "", s) keeps
IsSlugChar(c) == c \in AsciiLower \/ IsDigit(c) \/ c = "-"

slugify_zone(zona) ==
    IF zona = <<>> THEN <<>>
    ELSE SelectSeq(sub_ws_hyphen(translate(strip(lower(zona)))), IsSlugChar)

\* lines 177-196: zone name -> slug, in the order of the dict
ZONA_MAPEO_INFOCASAS ==
    << << <<"a","n","c","ó","n">>, <<"a","n","c","o","n">> >>,
       << <<"a","t","e">>, <<"a","t","e">> >>,
       << <<"b","a","r","r","a","n","c","o">>, <<"b","a","r","r","a","n","c","o">> >>,
       << <<"b","r","e","ñ","a">>, <<"b","r","e","ñ","a">> >>,
       << <<"c","a","r","a","b","a","y","l","l","o">>, <<"c","a","r","a","b","a","y","l","l","o">> >>,
       << <<"c","h","a","c","l","a","c","a","y","o">>, <<"c","h","a","c","l","a","c","a","y","o">> >>,
       << <<"c","h","o","r","r","i","l","l","o","s">>, <<"c","h","o","r","r","i","l","l","o","s">> >>,
       << <<"c","i","e","n","e","g","u","i","l","l","a">>, <<"c","i","e","n","e","g","u","i","l","l","a">> >>,
       << <<"c","o","m","a","s">>, <<"c","o","m","a","s">> >>,
       << <<"e","l"," ","a","g","u","s","t","i","n","o">>, <<"e","l","-","a","g","u","s","t","i","n","o">> >>,
       << <<"i","n","d","e","p","e","n","d","e","n","c","i","a">>, <<"i","n","d","e","p","e","n","d","e","n","c","i","a">> >>,
       << <<"j","e","s","ú","s"," ","m","a","r","í","a">>, <<"j","e","s","u","s","-","m","a","r","i","a">> >>,
       << <<"l","a"," ","m","o","l","i","n","a">>, <<"l","a","-","m","o","l","i","n","a">> >>,
       << <<"l","a"," ","v","i","c","t","o","r","i","a">>, <<"l","a","-","v","i","c","t","o","r","i","a">> >>,
       << <<"l","i","m","a">>, <<"l","i","m","a","-","c","e","r","c","a","d","o">> >>,
       << <<"l","i","n","c","e">>, <<"l","i","n","c","e">> >>,
       << <<"l","o","s"," ","o","l","i","v","o","s">>, <<"l","o","s","-","o","l","i","v","o","s">> >>,
       << <<"l","u","r","i","g","a","n","c","h","o">>, <<"l","u","r","i","g","a","n","c","h","o">> >>,
       << <<"l","u","r","í","n">>, <<"l","u","r","i","n">> >>,
       << <<"m","a","g","d","a","l","e","n","a"," ","d","e","l"," ","m","a","r">>, <<"m","a","g","d","a","l","e","n","a","-","d","e","l","-","m","a","r">> >>,
       << <<"m","i","r","a","f","l","o","r","e","s">>, <<"m","i","r","a","f","l","o","r","e","s">> >>,
       << <<"p","a","c","h","a","c","á","m","a","c">>, <<"p","a","c","h","a","c","a","m","a","c">> >>,
       << <<"p","u","c","u","s","a","n","a">>, <<"p","u","c","u","s","a","n","a">> >>,
       << <<"p","u","e","b","l","o"," ","l","i","b","r","e">>, <<"p","u","e","b","l","o","-","l","i","b","r","e">> >>,
       << <<"p","u","e","n","t","e"," ","p","i","e","d","r","a">>, <<"p","u","e","n","t","e","-","p","i","e","d","r","a">> >>,
       << <<"p","u","n","t","a"," ","h","e","r","m","o","s","a">>, <<"p","u","n","t","a","-","h","e","r","m","o","s","a">> >>,
       << <<"p","u","n","t","a"," ","n","e","g","r","a">>, <<"p","u","n","t","a","-","n","e","g","r","a">> >>,
       << <<"r","í","m","a","c">>, <<"r","i","m","a","c">> >>,
       << <<"s","a","n"," ","b","a","r","t","o","l","o">>, <<"s","a","n","-","b","a","r","t","o","l","o">> >>,
       << <<"s","a","n"," ","b","o","r","j","a">>, <<"s","a","n","-","b","o","r","j","a">> >>,
       << <<"s","a","n"," ","i","s","i","d","r","o">>, <<"s","a","n","-","i","s","i","d","r","o">> >>,
       << <<"s","a","n"," ","j","u","a","n"," ","d","e"," ","l","u","r","i","g","a","n","c","h","o">>, <<"s","a","n","-","j","u","a","n","-","d","e","-","l","u","r","i","g","a","n","c","h","o">> >>,
       << <<"s","a","n"," ","j","u","a","n"," ","d","e"," ","m","i","r","a","f","l","o","r","e","s">>, <<"s","a","n","-","j","u","a","n","-","d","e","-","m","i","r","a","f","l","o","r","e","s">> >>,
       << <<"s","a","n"," ","l","u","i","s">>, <<"s","a","n","-","l","u","i","s">> >>,
       << <<"s","a","n"," ","m","a","r","t","í","n"," ","d","e"," ","p","o","r","r","e","s">>, <<"s","a","n","-","m","a","r","t","i","n","-","d","e","-","p","o","r","r","e","s">> >>,
       << <<"s","a","n"," ","m","i","g","u","e","l">>, <<"s","a","n","-","m","i","g","u","e","l">> >>,
       << <<"s","a","n","t","a"," ","a","n","i","t","a">>, <<"s","a","n","t","a","-","a","n","i","t","a">> >>,
       << <<"s","a","n","t","a"," ","m","a","r","í","a"," ","d","e","l"," ","m","a","r">>, <<"s","a","n","t","a","-","m","a","r","i","a","-","d","e","l","-","m","a","r">> >>,
       << <<"s","a","n","t","a"," ","r","o","s","a">>, <<"s","a","n","t","a","-","r","o","s","a">> >>,
       << <<"s","a","n","t","i","a","g","o"," ","d","e"," ","s","u","r","c","o">>, <<"s","a","n","t","i","a","g","o","-","d","e","-","s","u","r","c","o">> >>,
       << <<"s","u","r","q","u","i","l","l","o">>, <<"s","u","r","q","u","i","l","l","o">> >>,
       << <<"v","i","l","l","a"," ","e","l"," ","s","a","l","v","a","d","o","r">>, <<"v","i","l","l","a","-","e","l","-","s","a","l","v","a","d","o","r">> >>,
       << <<"v","i","l","l","a"," ","m","a","r","í","a"," ","d","e","l"," ","t","r","i","u","n","f","o">>, <<"v","i","l","l","a","-","m","a","r","i","a","-","d","e","l","-","t","r","i","u","n","f","o">> >> >>

\* lines 293-312
ZONA_MAPEO_PROPERATI ==
    << << <<"a","n","c","ó","n">>, <<"a","n","c","o","n">> >>,
       << <<"a","t","e">>, <<"a","t","e">> >>,
       << <<"b","a","r","r","a","n","c","o">>, <<"b","a","r","r","a","n","c","o">> >>,
       << <<"b","r","e","ñ","a">>, <<"b","r","e","n","a">> >>,
       << <<"c","a","r","a","b","a","y","l","l","o">>, <<"c","a","r","a","b","a","y","l","l","o">> >>,
       << <<"c","h","a","c","l","a","c","a","y","o">>, <<"c","h","a","c","l","a","c","a","y","o">> >>,
       << <<"c","h","o","r","r","i","l","l","o","s">>, <<"c","h","o","r","r","i","l","l","o","s">> >>,
       << <<"c","i","e","n","e","g","u","i","l","l","a">>, <<"c","i","e","n","e","g","u","i","l","l","a">> >>,
       << <<"c","o","m","a","s">>, <<"c","o","m","a","s">> >>,
       << <<"e","l"," ","a","g","u","s","t","i","n","o">>, <<"e","l","-","a","g","u","s","t","i","n","o">> >>,
       << <<"i","n","d","e","p","e","n","d","e","n","c","i","a">>, <<"i","n","d","e","p","e","n","d","e","n","c","i","a">> >>,
       << <<"j","e","s","ú","s"," ","m","a","r","í","a">>, <<"j","e","s","u","s","-","m","a","r","i","a">> >>,
       << <<"l","a"," ","m","o","l","i","n","a">>, <<"l","a","-","m","o","l","i","n","a">> >>,
       << <<"l","a"," ","v","i","c","t","o","r","i","a">>, <<"l","a","-","v","i","c","t","o","r","i","a">> >>,
       << <<"l","i","m","a">>, <<"l","i","m","a">> >>,
       << <<"l","i","n","c","e">>, <<"l","i","n","c","e">> >>,
       << <<"l","o","s"," ","o","l","i","v","o","s">>, <<"l","o","s","-","o","l","i","v","o","s">> >>,
       << <<"l","u","r","i","g","a","n","c","h","o">>, <<"l","u","r","i","g","a","n","c","h","o">> >>,
       << <<"l","u","r","í","n">>, <<"l","u","r","i","n">> >>,
       << <<"m","a","g","d","a","l","e","n","a"," ","d","e","l"," ","m","a","r">>, <<"m","a","g","d","a","l","e","n","a","-","d","e","l","-","m","a","r">> >>,
       << <<"m","i","r","a","f","l","o","r","e","s">>, <<"m","i","r","a","f","l","o","r","e","s">> >>,
       << <<"p","a","c","h","a","c","á","m","a","c">>, <<"p","a","c","h","a","c","a","m","a","c">> >>,
       << <<"p","u","c","u","s","a","n","a">>, <<"p","u","c","u","s","a","n","a">> >>,
       << <<"p","u","e","b","l","o"," ","l","i","b","r","e">>, <<"p","u","e","b","l","o","-","l","i","b","r","e">> >>,
       << <<"p","u","e","n","t","e"," ","p","i","e","d","r","a">>, <<"p","u","e","n","t","e","-","p","i","e","d","r","a">> >>,
       << <<"p","u","n","t","a"," ","h","e","r","m","o","s","a">>, <<"p","u","n","t","a","-","h","e","r","m","o","s","a">> >>,
       << <<"p","u","n","t","a"," ","n","e","g","r","a">>, <<"p","u","n","t","a","-","n","e","g","r","a">> >>,
       << <<"r","í","m","a","c">>, <<"r","i","m","a","c">> >>,
       << <<"s","a","n"," ","b","a","r","t","o","l","o">>, <<"s","a","n","-","b","a","r","t","o","l","o">> >>,
       << <<"s","a","n"," ","b","o","r","j","a">>, <<"s","a","n","-","b","o","r","j","a">> >>,
       << <<"s","a","n"," ","i","s","i","d","r","o">>, <<"s","a","n","-","i","s","i","d","r","o">> >>,
       << <<"s","a","n"," ","j","u","a","n"," ","d","e"," ","l","u","r","i","g","a","n","c","h","o">>, <<"s","a","n","-","j","u","a","n","-","d","e","-","l","u","r","i","g","a","n","c","h","o">> >>,
       << <<"s","a","n"," ","j","u","a","n"," ","d","e"," ","m","i","r","a","f","l","o","r","e","s">>, <<"s","a","n","-","j","u","a","n","-","d","e","-","m","i","r","a","f","l","o","r","e","s">> >>,
       << <<"s","a","n"," ","l","u","i","s">>, <<"s","a","n","-","l","u","i","s">> >>,
       << <<"s","a","n"," ","m","a","r","t","í","n"," ","d","e"," ","p","o","r","r","e","s">>, <<"s","a","n","-","m","a","r","t","i","n","-","d","e","-","p","o","r","r","e","s">> >>,
       << <<"s","a","n"," ","m","i","g","u","e","l">>, <<"s","a","n","-","m","i","g","u","e","l">> >>,
       << <<"s","a","n","t","a"," ","a","n","i","t","a">>, <<"s","a","n","t","a","-","a","n","i","t","a">> >>,
       << <<"s","a","n","t","a"," ","m","a","r","í","a"," ","d","e","l"," ","m","a","r">>, <<"s","a","n","t","a","-","m","a","r","i","a","-","d","e","l","-","m","a","r">> >>,
       << <<"s","a","n","t","a"," ","r","o","s","a">>, <<"s","a","n","t","a","-","r","o","s","a">> >>,
       << <<"s","a","n","t","i","a","g","o"," ","d","e"," ","s","u","r","c","o">>, <<"s","a","n","t","i","a","g","o","-","d","e","-","s","u","r","c","o">> >>,
       << <<"s","u","r","q","u","i","l","l","o">>, <<"s","u","r","q","u","i","l","l","o">> >>,
       << <<"v","i","l","l","a"," ","e","l"," ","s","a","l","v","a","d","o","r">>, <<"v","i","l","l","a","-","e","l","-","s","a","l","v","a","d","o","r">> >>,
       << <<"v","i","l","l","a"," ","m","a","r","í","a"," ","d","e","l"," ","t","r","i","u","n","f","o">>, <<"v","i","l","l","a","-","m","a","r","i","a","-","d","e","l","-","t","r","i","u","n","f","o">> >> >>

\* lines 431-443: zone name -> numeric location id
ZONA_IDS_CORRECTOS ==
    << << <<"a","n","c","ó","n">>, <<"-","3","3","6","9","1","2">> >>,
       << <<"a","t","e">>, <<"-","3","3","7","6","7","9">> >>,
       << <<"b","r","e","ñ","a">>, <<"6","5","6","4","5","3","4","5">> >>,
       << <<"c","a","r","a","b","a","y","l","l","o">>, <<"-","3","3","9","9","0","7">> >>,
       << <<"c","h","a","c","l","a","c","a","y","o">>, <<"-","3","4","1","1","9","0">> >>,
       << <<"c","h","o","r","r","i","l","l","o","s">>, <<"-","3","4","2","8","1","1">> >>,
       << <<"c","i","e","n","e","g","u","i","l","l","a">>, <<"-","3","4","3","3","2","9">> >>,
       << <<"c","o","m","a","s">>, <<"-","3","4","3","9","0","3">> >>,
       << <<"e","l"," ","a","g","u","s","t","i","n","o">>, <<"-","3","4","5","5","5","2">> >>,
       << <<"j","e","s","ú","s"," ","m","a","r","í","a">>, <<"3","4","8","2","9","4">> >>,
       << <<"l","a"," ","m","o","l","i","n","a">>, <<"-","3","5","1","7","4","0">> >>,
       << <<"l","a"," ","v","i","c","t","o","r","i","a">>, <<"-","3","5","2","4","4","2">> >>,
       << <<"l","i","m","a">>, <<"4","5","3","4","3","4","4","5">> >>,
       << <<"l","i","n","c","e">>, <<"-","3","5","2","6","9","6">> >>,
       << <<"l","o","s"," ","o","l","i","v","o","s">>, <<"1","9","1","1","2","6">> >>,
       << <<"l","u","r","i","g","a","n","c","h","o">>, <<"-","3","5","3","6","4","8">> >>,
       << <<"l","u","r","í","n">>, <<"-","3","5","3","6","5","2">> >>,
       << <<"m","a","g","d","a","l","e","n","a"," ","d","e","l"," ","m","a","r">>, <<"3","2","6","2","4","5">> >>,
       << <<"m","i","r","a","f","l","o","r","e","s">>, <<"-","3","5","4","8","6","4">> >>,
       << <<"p","a","c","h","a","c","á","m","a","c">>, <<"-","3","5","6","6","3","6">> >>,
       << <<"p","u","c","u","s","a","n","a">>, <<"-","3","5","9","6","7","2">> >>,
       << <<"p","u","e","b","l","o"," ","l","i","b","r","e">>, <<"-","3","5","9","6","9","0">> >>,
       << <<"p","u","e","n","t","e"," ","p","i","e","d","r","a">>, <<"-","3","5","9","7","5","9">> >>,
       << <<"p","u","n","t","a"," ","h","e","r","m","o","s","a">>, <<"-","3","6","0","1","8","6">> >>,
       << <<"p","u","n","t","a"," ","n","e","g","r","a">>, <<"-","3","6","0","1","8","9">> >>,
       << <<"r","í","m","a","c">>, <<"-","3","6","1","3","0","8">> >>,
       << <<"s","a","n"," ","b","a","r","t","o","l","o">>, <<"-","3","6","2","1","5","4">> >>,
       << <<"s","a","n"," ","b","o","r","j","a">>, <<"-","3","6","2","1","7","0">> >>,
       << <<"s","a","n"," ","i","s","i","d","r","o">>, <<"-","3","6","2","4","2","5">> >>,
       << <<"s","a","n"," ","l","u","i","s">>, <<"-","3","6","2","7","3","8">> >>,
       << <<"s","a","n"," ","m","i","g","u","e","l">>, <<"-","3","6","2","8","0","4">> >>,
       << <<"s","a","n","t","i","a","g","o"," ","d","e"," ","s","u","r","c","o">>, <<"-","3","6","4","7","0","5">> >>,
       << <<"s","u","r","q","u","i","l","l","o">>, <<"-","3","6","4","7","2","3">> >> >>

\* urllib.parse.quote of one character that is not in its safe set: the UTF-8
\* bytes of the character, each as %XX (the punctuation and the accented letters
\* that zones and keywords are made of)
PercentEncoded ==
    << <<" ", <<"%","2","0">> >>,
       <<"!", <<"%","2","1">> >>,
       <<"#", <<"%","2","3">> >>,
       <<"$", <<"%","2","4">> >>,
       <<"%", <<"%","2","5">> >>,
       <<"&", <<"%","2","6">> >>,
       <<"'", <<"%","2","7">> >>,
       <<"(", <<"%","2","8">> >>,
       <<")", <<"%","2","9">> >>,
       <<"*", <<"%","2","A">> >>,
       <<"+", <<"%","2","B">> >>,
       <<",", <<"%","2","C">> >>,
       <<":", <<"%","3","A">> >>,
       <<";", <<"%","3","B">> >>,
       <<"<", <<"%","3","C">> >>,
       <<"=", <<"%","3","D">> >>,
       <<">", <<"%","3","E">> >>,
       <<"?", <<"%","3","F">> >>,
       <<"@", <<"%","4","0">> >>,
       <<"[", <<"%","5","B">> >>,
       <<"]", <<"%","5","D">> >>,
       <<"{", <<"%","7","B">> >>,
       <<"|", <<"%","7","C">> >>,
       <<"}", <<"%","7","D">> >>,
       <<"á", <<"%","C","3","%","A","1">> >>,
       <<"é", <<"%","C","3","%","A","9">> >>,
       <<"í", <<"%","C","3","%","A","D">> >>,
       <<"ó", <<"%","C","3","%","B","3">> >>,
       <<"ú", <<"%","C","3","%","B","A">> >>,
       <<"ñ", <<"%","C","3","%","B","1">> >>,
       <<"ü", <<"%","C","3","%","B","C">> >>,
       <<"Á", <<"%","C","3","%","8","1">> >>,
       <<"É", <<"%","C","3","%","8","9">> >>,
       <<"Í", <<"%","C","3","%","8","D">> >>,
       <<"Ó", <<"%","C","3","%","9","3">> >>,
       <<"Ú", <<"%","C","3","%","9","A">> >>,
       <<"Ñ", <<"%","C","3","%","9","1">> >>,
       <<"Ü", <<"%","C","3","%","9","C">> >>,
       <<"²", <<"%","C","2","%","B","2">> >> >>

\* the characters urllib.parse.quote leaves alone (safe="/")
QuoteSafe == AsciiUpper \cup AsciiLower \cup {DigitChars[i] : i \in 1..Len(DigitChars)}
                \cup {"_", ".", "-", "~", "/"}
quote_char(c) == IF c \in QuoteSafe THEN <<c>> ELSE dict_get(PercentEncoded, c, <<c>>)
\* requests.utils.quote(s)
RECURSIVE quote(_)
quote(s) == IF s = <<>> THEN <<>> ELSE quote_char(Head(s)) \o quote(Tail(s))

\* x and x != "0", of a bedrooms or bathrooms request
given(x) == x # <<>> /\ x # <<"0">>
\* the value of an Optional[int] that is not None
int_str(p) == str_int(p[1])

\* lines 79-88: the pieces of the Nestoria URL
NestoriaHost ==
    <<"h","t","t","p","s",":","/","/","w","w","w",".","n","e","s","t","o","r","i","a",".",
      "p","e">>
NestoriaListing == <<"/","i","n","m","u","e","b","l","e","s","/","a","l","q","u","i","l","e","r">>
NestoriaDorm == <<"/","d","o","r","m","i","t","o","r","i","o","s","-">>
NestoriaBanos == <<"b","a","t","h","r","o","o","m","s","=">>
NestoriaMin == <<"p","r","i","c","e","_","m","i","n","=">>
NestoriaMax == <<"p","r","i","c","e","_","m","a","x","=">>
\* lines 201-218: the pieces of the Infocasas URL
InfocasasHost ==
    <<"h","t","t","p","s",":","/","/","w","w","w",".","i","n","f","o","c","a","s","a","s",
      ".","c","o","m",".","p","e">>
InfocasasListing ==
    <<"/","a","l","q","u","i","l","e","r","/","c","a","s","a","s","-","y","-","d","e","p",
      "a","r","t","a","m","e","n","t","o","s">>
InfocasasLima == <<"/","l","i","m","a","/">>
InfocasasDorm == <<"-","d","o","r","m","i","t","o","r","i","o">>
InfocasasBano == <<"-","b","a","n","o">>
InfocasasDesde == <<"/","d","e","s","d","e","-">>
InfocasasHasta == <<"/","h","a","s","t","a","-">>
InfocasasMoneda == <<"?","&","I","D","m","o","n","e","d","a","=","6">>
InfocasasSearch == <<"s","e","a","r","c","h","s","t","r","i","n","g","=">>
\* lines 317-345: the pieces of the Properati URL
ProperatiHost ==
    <<"h","t","t","p","s",":","/","/","w","w","w",".","p","r","o","p","e","r","a","t","i",
      ".","c","o","m",".","p","e">>
ProperatiSearch == <<"/","s","/">>
ProperatiListing ==
    <<"a","l","q","u","i","l","e","r","?","p","r","o","p","e","r","t","y","T","y","p","e",
      "=","a","p","a","r","t","m","e","n","t","%","2","C","h","o","u","s","e">>
ProperatiBedrooms == <<"b","e","d","r","o","o","m","s","=">>
ProperatiBathrooms == <<"b","a","t","h","r","o","o","m","s","=">>
ProperatiMin == <<"m","i","n","P","r","i","c","e","=">>
ProperatiMax == <<"m","a","x","P","r","i","c","e","=">>
ProperatiAmenities == <<"&","a","m","e","n","i","t","i","e","s","=">>
ProperatiKeyword == <<"&","k","e","y","w","o","r","d","=">>
sPiscina == <<"p","i","s","c","i","n","a">>
sJardin == <<"j","a","r","d","i","n">>
sSwimmingPool == <<"s","w","i","m","m","i","n","g","_","p","o","o","l">>
sGarden == <<"g","a","r","d","e","n">>
\* lines 445-473: the pieces of the Doomos URL
DoomosHost ==
    <<"h","t","t","p",":","/","/","w","w","w",".","d","o","o","m","o","s",".","c","o","m",
      ".","p","e">>
DoomosSearch == <<"/","s","e","a","r","c","h","/">>
DoomosRegion == <<" ","(","R","e","g","i","ó","n"," ","d","e"," ","L","i","m","a",")">>
DoomosLima ==
    <<"L","i","m","a"," ","(","R","e","g","i","ó","n"," ","d","e"," ","L","i","m","a",
      ")">>
DoomosLimaId == <<"-","3","5","2","6","4","7">>
kClase == <<"c","l","a","s","e">>
kStipo == <<"s","t","i","p","o">>
kPagina == <<"p","a","g","i","n","a">>
kSort == <<"s","o","r","t">>
vStipo == <<"1","6">>
vSort == <<"p","r","i","m","e","a","s","c">>
kLocName == <<"l","o","c","_","n","a","m","e">>
kLocId == <<"l","o","c","_","i","d">>
kPiezas == <<"p","i","e","z","a","s">>
kBanos == <<"b","a","n","o","s">>
kPrecioMin == <<"p","r","e","c","i","o","m","i","n">>
kPrecioMax == <<"p","r","e","c","i","o","m","a","x">>
kKeyword == <<"k","e","y","w","o","r","d">>

\* lines 82-90: "?" and the parameters joined by "&", when there are any
nestoria_params(banos, price_min, price_max) ==
    (IF given(banos) THEN <<NestoriaBanos \o banos>> ELSE <<>>)
      \o (IF price_min # None /\ price_min[1] # 0
          THEN <<NestoriaMin \o int_str(price_min)>> ELSE <<>>)
      \o (IF price_max # None /\ price_max[1] # 0
          THEN <<NestoriaMax \o int_str(price_max)>> ELSE <<>>)
query_string(params) == IF params # <<>> THEN <<"?">> \o join(params, <<"&">>) ELSE <<>>

\* lines 78-90: the slug and the URL scrape_nestoria fetches
nestoria_url(zona, q) ==
    [slug |-> build_zona_slug_nestoria(zona),
     url |-> NestoriaHost \o <<"/">> \o build_zona_slug_nestoria(zona) \o NestoriaListing
               \o (IF given(q.dormitorios) THEN NestoriaDorm \o q.dormitorios ELSE <<>>)
               \o query_string(nestoria_params(q.banos, q.price_min, q.price_max))]

\* a faulty variant: the table is looked up with the trimmed zone as typed
zone_slug_as_typed(table, zona) ==
    IF zona # <<>> /\ strip(zona) # <<>>
    THEN Some(dict_get(table, strip(zona), slugify_zone(zona)))
    ELSE None

\* lines 198-203 and 314-319: the slug of a non-blank zone, None for a blank one
zone_slug_of(table, zona) ==
    IF zona # <<>> /\ strip(zona) # <<>>
    THEN Some(dict_get(table, lower(strip(zona)), slugify_zone(zona)))
    ELSE None

\* lines 205-212: the path segments of the criteria
infocasas_segments(q) ==
    IF given(q.dormitorios) /\ given(q.banos) /\ q.price_min # None /\ q.price_max # None
    THEN <<"/">> \o q.dormitorios \o InfocasasDorm \o <<"/">> \o q.banos \o InfocasasBano
            \o InfocasasDesde \o int_str(q.price_min)
            \o InfocasasHasta \o int_str(q.price_max) \o InfocasasMoneda
    ELSE IF given(q.dormitorios) /\ given(q.banos)
    THEN <<"/">> \o q.dormitorios \o InfocasasDorm \o <<"/">> \o q.banos \o InfocasasBano
    ELSE IF given(q.dormitorios) THEN <<"/">> \o q.dormitorios \o InfocasasDorm
    ELSE IF given(q.banos) THEN <<"/">> \o q.banos \o InfocasasBano
    ELSE <<>>

\* lines 214-218: the search string, after "&" when base has a "?" and "?" otherwise
infocasas_search(base, palabras_clave) ==
    IF palabras_clave # <<>> /\ strip(palabras_clave) # <<>>
    THEN base \o (IF Contains(<<"?">>, base) THEN <<"&">> ELSE <<"?">>)
              \o InfocasasSearch \o quote(strip(palabras_clave))
    ELSE base

infocasas_base(slug) ==
    InfocasasHost \o InfocasasListing
        \o (IF slug # None THEN InfocasasLima \o slug[1] ELSE <<>>)

\* lines 198-218: the slug and the URL scrape_infocasas fetches
infocasas_url(zona, q) ==
    [slug |-> zone_slug_of(ZONA_MAPEO_INFOCASAS, zona),
     url |-> infocasas_search(
                infocasas_base(zone_slug_of(ZONA_MAPEO_INFOCASAS, zona))
                    \o infocasas_segments(q),
                q.palabras_clave)]

\* lines 321-329
properati_params(q) ==
    (IF given(q.dormitorios) THEN <<ProperatiBedrooms \o q.dormitorios>> ELSE <<>>)
      \o (IF given(q.banos) THEN <<ProperatiBathrooms \o q.banos>> ELSE <<>>)
      \o (IF q.price_min # None THEN <<ProperatiMin \o int_str(q.price_min)>> ELSE <<>>)
      \o (IF q.price_max # None THEN <<ProperatiMax \o int_str(q.price_max)>> ELSE <<>>)

\* lines 335-341: the amenities of the keywords, then the other keywords
RECURSIVE amenities_of(_)
amenities_of(palabras) ==
    IF palabras = <<>> THEN <<>>
    ELSE (IF Head(palabras) = sPiscina THEN <<sSwimmingPool>>
          ELSE IF Head(palabras) = sJardin THEN <<sGarden>> ELSE <<>>)
            \o amenities_of(Tail(palabras))
other_keywords_of(palabras) ==
    LET other(p) == p # sPiscina /\ p # sJardin IN SelectSeq(palabras, other)

\* lines 331-345
properati_keywords(palabras_clave) ==
    IF palabras_clave # <<>> /\ strip(palabras_clave) # <<>>
    THEN (IF amenities_of(split(lower(palabras_clave))) # <<>>
          THEN ProperatiAmenities
                 \o join(amenities_of(split(lower(palabras_clave))), <<",">>)
          ELSE <<>>)
           \o (IF other_keywords_of(split(lower(palabras_clave))) # <<>>
               THEN ProperatiKeyword
                      \o quote(join(other_keywords_of(split(lower(palabras_clave))),
                                    <<" ">>))
               ELSE <<>>)
    ELSE <<>>

properati_base(slug) ==
    ProperatiHost \o ProperatiSearch
        \o (IF slug # None THEN slug[1] \o <<"/">> ELSE <<>>) \o ProperatiListing

\* lines 314-348: the slug and the URL scrape_properati fetches
properati_url(zona, q) ==
    [slug |-> zone_slug_of(ZONA_MAPEO_PROPERATI, zona),
     url |-> properati_base(zone_slug_of(ZONA_MAPEO_PROPERATI, zona))
               \o properati_keywords(q.palabras_clave)
               \o (IF properati_params(q) # <<>>
                   THEN <<"&">> \o join(properati_params(q), <<"&">>) ELSE <<>>)]

\* lines 457-458: the location id of a non-blank zone, "" when the table has none
doomos_id(zona) == dict_get(ZONA_IDS_CORRECTOS, lower(strip(zona)), <<>>)

\* lines 453-462: loc_name and, when there is one, loc_id
doomos_location(zona) ==
    IF zona = <<>> \/ strip(zona) = <<>>
    THEN << <<kLocName, DoomosLima>>, <<kLocId, DoomosLimaId>> >>
    ELSE << <<kLocName, strip(zona) \o DoomosRegion>> >>
           \o (IF doomos_id(zona) # <<>> THEN << <<kLocId, doomos_id(zona)>> >> ELSE <<>>)

\* lines 446-473: the parameters, in the order they are put in the dict
doomos_params(zona, q) ==
    << <<kClase, <<"1">> >>, <<kStipo, vStipo>>, <<kPagina, <<"1">> >>, <<kSort, vSort>> >>
      \o doomos_location(zona)
      \o (IF given(q.dormitorios) THEN << <<kPiezas, q.dormitorios>> >> ELSE <<>>)
      \o (IF given(q.banos) THEN << <<kBanos, q.banos>> >> ELSE <<>>)
      \o (IF q.price_min # None THEN << <<kPrecioMin, int_str(q.price_min)>> >> ELSE <<>>)
      \o (IF q.price_max # None THEN << <<kPrecioMax, int_str(q.price_max)>> >> ELSE <<>>)
      \o (IF q.palabras_clave # <<>> /\ strip(q.palabras_clave) # <<>>
          THEN << <<kKeyword, strip(q.palabras_clave)>> >> ELSE <<>>)

\* line 475: k=quote(str(v)) for each parameter
encode_params(params) == [i \in 1..Len(params) |-> params[i][1] \o <<"=">> \o quote(params[i][2])]

\* lines 445-475: the location id and the URL scrape_doomos fetches
doomos_url(zona, q) ==
    [slug |-> IF zona = <<>> \/ strip(zona) = <<>> THEN DoomosLimaId ELSE doomos_id(zona),
     params |-> doomos_params(zona, q),
     url |-> DoomosHost \o DoomosSearch \o <<"?">>
               \o join(encode_params(doomos_params(zona, q)), <<"&">>)]

(***************************************************************************)
(* pandas DataFrames.  A DataFrame is an object on the heap: its set of    *)
(* columns and its rows in positional order, each row a function from the  *)
(* column names to the cell values.  The heap is the sequence of the       *)
(* objects allocated so far and a reference is an index into it, so that   *)
(* an in-place change through one name is seen through every alias.        *)
(***************************************************************************)
\* pd.DataFrame()
pd_DataFrame == [columns |-> {}, rows |-> <<>>]
\* df.empty
df_empty(d) == d.rows = <<>> \/ d.columns = {}
\* a new object
Alloc(h, d) == [heap |-> Append(h, d), ref |-> Len(h) + 1]

\* a faulty variant: no copy is taken, the name is bound to the caller's object
df_alias(h, r) == [heap |-> h, ref |-> r]

\* df.copy()
df_copy(h, r) == Alloc(h, h[r])

\* df.reset_index(drop=True): a new object, rows renumbered by position
reset_index(h, r) == Alloc(h, h[r])

\* df[col] = values (one per row), in place
set_column(h, r, col, values) ==
    [h EXCEPT ![r] =
        [columns |-> @.columns \cup {col},
         rows |-> [i \in 1..Len(@.rows) |-> (col :> values[i]) @@ @.rows[i]]]]

\* df.drop(columns=cols, errors="ignore", inplace=True)
drop_columns(h, r, cols) ==
    [h EXCEPT ![r] =
        [columns |-> @.columns \ cols,
         rows |-> [i \in 1..Len(@.rows) |->
                     [c \in (DOMAIN @.rows[i]) \ cols |-> @.rows[i][c]]]]]

\* the rows a boolean mask keeps, in order
RECURSIVE take_mask(_, _)
take_mask(rows, mask) ==
    IF rows = <<>> THEN <<>>
    ELSE (IF Head(mask) THEN <<Head(rows)>> ELSE <<>>)
            \o take_mask(Tail(rows), Tail(mask))

\* df[mask] / df.loc[mask].copy().reset_index(drop=True): a new object holding
\* the rows the mask keeps
select_rows(h, r, mask) ==
    Alloc(h, [columns |-> h[r].columns, rows |-> take_mask(h[r].rows, mask)])

\* an object no name refers to any more
Freed == [columns |-> {}, rows |-> <<>>, freed |-> TRUE]
\* what is left of heap h when a call that started with heap h0 returns ref:
\* the objects the call allocated, other than the one it returns, are garbage
Return(h0, h, ref) ==
    [heap |-> [i \in 1..Len(h) |-> IF i > Len(h0) /\ i # ref THEN Freed ELSE h[i]],
     ref |-> ref]

(***************************************************************************)
(* Filter engine                                                           *)
(***************************************************************************)
\* int() of a sign and what follows it; None stands for the ValueError
signed_int(sign, d) ==
    IF d # <<>> /\ \A i \in 1..Len(d) : IsDigit(d[i])
    THEN Some(IF sign = "-" THEN 0 - int_of_digits(d) ELSE int_of_digits(d))
    ELSE None
int_of_trimmed(t) ==
    IF t # <<>> /\ Head(t) \in {"+", "-"} THEN signed_int(Head(t), Tail(t))
    ELSE signed_int("+", t)
\* int(x) of a request string: optional surrounding whitespace, optional sign,
\* digits
py_int(x) == int_of_trimmed(strip(x))

\* a faulty variant: the value is returned whatever the currency
_parse_price_any_currency(s) == parse_precio_con_moneda(s).val

\* line 552: val if moneda == "S" else None
soles_only(p) == IF p.moneda = Some("S") THEN p.val ELSE None

_parse_price_soles(s) == soles_only(parse_precio_con_moneda(s))

\* the request is set: truthy, not blank and not "0"
req_set(req) == req # <<>> /\ strip(req) # <<>> /\ req # <<"0">>

\* 10**12 in the code, which stands for "no bound"; TLC's integers are 32 bits
\* wide, so the model uses 10^9: every price of the model is far below either
NoBound == 10^9

\* lines 578-581: notnull and pmin <= value <= pmax
price_in_range(v, price_min, price_max) ==
    LET pmin == IF price_min # None THEN price_min[1] ELSE 0 - NoBound
        pmax == IF price_max # None THEN price_max[1] ELSE NoBound
    IN  v # None /\ v[1] >= pmin /\ v[1] <= pmax

\* a faulty variant: an unparseable field passes the criterion
num_equals_or_null(v, req) ==
    req_set(req) /\ py_int(req) # None => (v = None \/ v[1] = py_int(req)[1])

\* lines 563-575: a set request that int() accepts keeps the rows whose number
\* is not null and equals it; int() failing leaves the mask alone
num_equals(v, req) ==
    req_set(req) /\ py_int(req) # None => (v # None /\ v[1] = py_int(req)[1])

HelperColumns == {"_precio_soles", "_dorm_num", "_banos_num"}

\* line 558: dfc["_precio_soles"] = dfc["precio"].apply(_parse_price_soles)
add_precio_soles(h, dfc) ==
    set_column(h, dfc, "_precio_soles",
        [i \in 1..Len(h[dfc].rows) |-> _parse_price_soles(h[dfc].rows[i]["precio"])])
\* line 559
add_dorm_num(h, dfc) ==
    set_column(h, dfc, "_dorm_num",
        [i \in 1..Len(h[dfc].rows) |->
            _extract_int_from_text(h[dfc].rows[i]["dormitorios"])])
\* line 560
add_banos_num(h, dfc) ==
    set_column(h, dfc, "_banos_num",
        [i \in 1..Len(h[dfc].rows) |-> _extract_int_from_text(h[dfc].rows[i]["banos"])])

\* lines 561-581: the mask over the rows of dfc
strict_mask(dfc, dormitorios_req, banos_req, price_min, price_max) ==
    [i \in 1..Len(dfc.rows) |->
        /\ num_equals(dfc.rows[i]["_dorm_num"], dormitorios_req)
        /\ num_equals(dfc.rows[i]["_banos_num"], banos_req)
        /\ (price_min # None \/ price_max # None
              => price_in_range(dfc.rows[i]["_precio_soles"], price_min, price_max))]

\* the columns cols are dropped in place from the selection f, which is returned
drop_and_return(h0, f, cols) == Return(h0, drop_columns(f.heap, f.ref, cols), f.ref)

\* lines 561-585, on the heap h that holds dfc with its helper columns
strict_select(h0, h, dfc, dormitorios_req, banos_req, price_min, price_max) ==
    drop_and_return(h0,
        select_rows(h, dfc,
            strict_mask(h[dfc], dormitorios_req, banos_req, price_min, price_max)),
        HelperColumns)

\* lines 558-585, c being dfc
strict_on(h0, c, dormitorios_req, banos_req, price_min, price_max) ==
    strict_select(h0,
        add_banos_num(add_dorm_num(add_precio_soles(c.heap, c.ref), c.ref), c.ref),
        c.ref, dormitorios_req, banos_req, price_min, price_max)

\* reset_index of the copy c
reset_copy(c) == reset_index(c.heap, c.ref)

_filter_df_strict(h, df, dormitorios_req, banos_req, price_min, price_max) ==
    IF df_empty(h[df]) THEN Alloc(h, pd_DataFrame)
    ELSE strict_on(h, reset_copy(df_copy(h, df)),
                   dormitorios_req, banos_req, price_min, price_max)

\* line 592-598: the text the keywords are searched in
texto_completo(row) ==
    lower(row["titulo"] \o <<" ">> \o row["descripcion"] \o <<" ">> \o row["m2"]
            \o <<" ">> \o row["dormitorios"] \o <<" ">> \o row["banos"])

\* str.contains(re.escape(p), case=False): p as a literal, letter case ignored
str_contains_nocase(text, p) == Contains(lower(p), lower(text))

\* line 600: the rows of dfc whose text contains p
keyword_mask(dfc, p) ==
    [i \in 1..Len(dfc.rows) |-> str_contains_nocase(dfc.rows[i]["texto_completo"], p)]

\* a faulty variant: a loop that stops after the first keyword
keyword_loop_first_only(h, dfc, palabras) ==
    IF palabras = <<>> THEN [heap |-> h, ref |-> dfc]
    ELSE select_rows(h, dfc, keyword_mask(h[dfc], Head(palabras)))

\* lines 599-600: one selection per keyword, each from the previous selection f
RECURSIVE keyword_loop(_, _, _)
keyword_next(f, palabras) == keyword_loop(f.heap, f.ref, palabras)
keyword_loop(h, dfc, palabras) ==
    IF palabras = <<>> THEN [heap |-> h, ref |-> dfc]
    ELSE keyword_next(select_rows(h, dfc, keyword_mask(h[dfc], Head(palabras))),
                      Tail(palabras))

\* lines 592-598: dfc["texto_completo"] = ...
add_texto_completo(h, dfc) ==
    set_column(h, dfc, "texto_completo",
        [i \in 1..Len(h[dfc].rows) |-> texto_completo(h[dfc].rows[i])])

\* lines 591-602, c being dfc
keywords_on(h0, c, palabras) ==
    drop_and_return(h0,
        keyword_loop(add_texto_completo(c.heap, c.ref), c.ref, palabras),
        {"texto_completo"})

_filter_by_keywords(h, df, palabras_clave) ==
    IF df_empty(h[df]) \/ palabras_clave = <<>> \/ strip(palabras_clave) = <<>>
    THEN [heap |-> h, ref |-> df]
    ELSE keywords_on(h, df_copy(h, df), split(lower(palabras_clave)))

(***************************************************************************)
(* Inputs of the utility calls                                             *)
(***************************************************************************)
MaxTextLen == 4

PriceAlphabet == {"S", "/", "$", "1", "2", " "}
\* the price texts of the documented examples: "S/ 1,200" and "$350"
PriceExamples ==
    { <<"S","/"," ","1",",","2","0","0">>, <<"$","3","5","0">> }
PriceTexts ==
    UNION {[1..n -> PriceAlphabet] : n \in 0..MaxTextLen} \cup PriceExamples

ZoneNames ==
    {EXCEPCIONES[k] : k \in 1..Len(EXCEPCIONES)}
        \cup { <<"c","o","m","a","s">>,
               <<"s","a","n"," ","i","s","i","d","r","o">>,
               <<>> }
CaseVariants(z) ==
    {z, upper(z)} \cup (IF z = <<>> THEN {} ELSE {<<upper_char(Head(z))>> \o Tail(z)})
PadVariants(z) == {z, <<" ">> \o z, z \o <<" ">>, <<" ">> \o z \o <<" ">>}
ZoneInputs == UNION {UNION {PadVariants(c) : c \in CaseVariants(z)} : z \in ZoneNames}

NoHeap == <<>>

(***************************************************************************)
(* Calls of the utilities: args holds the call, ret its return value       *)
(***************************************************************************)
InitUtil ==
    /\ pc = "call"
    /\ args \in {[fn |-> "parse_precio_con_moneda", s |-> t] : t \in PriceTexts}
            \cup {[fn |-> "build_zona_slug_nestoria", s |-> z] : z \in ZoneInputs}
    /\ ret = None
    /\ returned = <<>>
    /\ frames = <<>>
    /\ heap = NoHeap

CallParsePrecio ==
    /\ pc = "call"
    /\ args.fn = "parse_precio_con_moneda"
    /\ ret' = parse_precio_con_moneda(args.s)
    /\ pc' = "done"
    /\ UNCHANGED <<args, returned, frames, heap>>

CallBuildZonaSlug ==
    /\ pc = "call"
    /\ args.fn = "build_zona_slug_nestoria"
    /\ ret' = build_zona_slug_nestoria(args.s)
    /\ pc' = "done"
    /\ UNCHANGED <<args, returned, frames, heap>>

NextUtil == CallParsePrecio \/ CallBuildZonaSlug

SpecUtil == InitUtil /\ [][NextUtil]_vars

ParseDone == pc = "done" /\ args.fn = "parse_precio_con_moneda"
SlugDone == pc = "done" /\ args.fn = "build_zona_slug_nestoria"

\* the digits of s read as one whole number, by place value
DigitPositions(s) == {i \in 1..Len(s) : IsDigit(s[i])}
RECURSIVE Pow10(_)
Pow10(n) == IF n = 0 THEN 1 ELSE 10 * Pow10(n - 1)
RECURSIVE SumOver(_, _)
SumOver(S, s) ==
    IF S = {} THEN 0
    ELSE LET i == CHOOSE x \in S : TRUE
         IN  DigitVal(s[i]) * Pow10(Cardinality({j \in DigitPositions(s) : j > i}))
               + SumOver(S \ {i}, s)
WholeNumber(s) == SumOver(DigitPositions(s), s)
HasLocalMarker(s) == \E i \in 1..(Len(s) - 1) : s[i] = "S" /\ s[i + 1] = "/"
HasForeignMarker(s) == \E i \in 1..Len(s) : s[i] = "$"

\* C9: parse_precio_con_moneda tags the text local ("S") when it contains "S/",
\* foreign ("USD") when it contains "$" and no "S/", and nothing otherwise; the
\* value is the digits of the text read as one whole number, nothing when the
\* text has no digit; the empty text gives (nothing, nothing).
C9_ParsePrecio ==
    ParseDone =>
        /\ ret.moneda = IF HasLocalMarker(args.s) THEN Some("S")
                        ELSE IF HasForeignMarker(args.s) THEN Some("USD")
                        ELSE None
        /\ ret.val = IF DigitPositions(args.s) = {} THEN None
                     ELSE Some(WholeNumber(args.s))
        /\ (args.s = <<>> => ret = [moneda |-> None, val |-> None])

\* a text with both markers and several separated digits has been parsed
C9_Witness ==
    /\ ParseDone
    /\ HasLocalMarker(args.s) /\ HasForeignMarker(args.s)
    /\ ret.moneda = Some("S")
    /\ ret.val = Some(1)

\* the documented example "S/ 1,200" has been parsed to (local, 1200)
C9_Example ==
    ParseDone /\ args.s = <<"S","/"," ","1",",","2","0","0">>
        => ret = [moneda |-> Some("S"), val |-> Some(1200)]

InExcepciones(zona) == \E k \in 1..Len(EXCEPCIONES) : EXCEPCIONES[k] = lower(strip(zona))
PlainSlug(zona) == replace_char(lower(strip(zona)), " ", "-")

\* C10: the Nestoria slug of a non-blank zone is the trimmed zone lowercased with
\* spaces replaced by hyphens, prefixed with "lima_" exactly when the zone is one
\* of EXCEPCIONES (the multi-word ones included).
C10_SlugPrefix ==
    SlugDone /\ strip(args.s) # <<>> =>
        ret = (IF InExcepciones(args.s) THEN LimaPrefix ELSE <<>>) \o PlainSlug(args.s)

\* what the code does: only the one-word zones of EXCEPCIONES get the prefix
SlugOneWordPrefix ==
    SlugDone /\ strip(args.s) # <<>> =>
        ret = (IF InExcepciones(args.s) /\ ~Contains(<<" ">>, strip(args.s))
               THEN LimaPrefix ELSE <<>>) \o PlainSlug(args.s)

(***************************************************************************)
(* Listing records and the inputs of the filter engine                     *)
(***************************************************************************)
RequiredColumns ==
    {"titulo", "precio", "m2", "dormitorios", "banos", "descripcion", "link",
     "imagen_url"}

Listing(titulo, precio, m2, dormitorios, banos, descripcion, link) ==
    [titulo |-> titulo, precio |-> precio, m2 |-> m2, dormitorios |-> dormitorios,
     banos |-> banos, descripcion |-> descripcion, link |-> link,
     imagen_url |-> <<>>]

sPool == <<"p","o","o","l">>
sSoles9 == <<"S","/"," ","9">>
sSoles12 == <<"S","/"," ","1","2">>

L1 == Listing(<<"A">>, sSoles9, <<>>, <<"2">>, <<"1">>, sPool, <<"u">>)
\* the key (link, titulo) of L1, dearer and without the keyword
L2 == Listing(<<"A">>, sSoles12, <<>>, <<"2">>, <<"1">>, <<>>, <<"u">>)
\* a foreign price, an unparseable number of bedrooms, the keyword in capitals
L3 == Listing(<<"P","o","o","l">>, <<"$"," ","9">>, <<>>, <<"x">>, <<>>, <<>>, <<"v">>)
\* no currency marker; "po" and "ol" in adjacent fields; a link to be trimmed
L4 == Listing(<<"B">>, <<"9">>, <<"o","l">>, <<"1">>, <<"1">>, <<"p","o">>, <<" ","u">>)
\* a link that is a page anchor
L5 == Listing(<<"B">>, sSoles9, <<>>, <<"2">>, <<"2">>, sPool, <<"#","x">>)
\* a price without digits; a link that normalisation empties
L6 == Listing(<<"A">>, <<"S","/">>, <<>>, <<"2">>, <<"1">>, sPool, <<"N","o","n","e">>)

Listings == {L1, L2, L3, L4, L5, L6}

MaxRows == 2

\* the documented example: bedrooms "1", "2", "2", "x"
ExampleRows == <<L4, L1, L2, L3>>

InputTables ==
    {[columns |-> RequiredColumns, rows |-> r] :
        r \in UNION {[1..n -> Listings] : n \in 0..MaxRows} \cup {ExampleRows}}
      \cup {pd_DataFrame}

DormReqs == {<<>>, <<"0">>, <<"2">>, <<"x">>}
BanosReqs == {<<"0">>, <<"1">>}
PriceMins == {None, Some(9)}
PriceMaxs == {None, Some(9)}
Keywords == {<<>>, <<" ">>, sPool, <<"P","O","O","L"," ","a">>}

\* the defaults of run_scrapers: nothing is filtered
NoFilter ==
    [dormitorios |-> <<"0">>, banos |-> <<"0">>, price_min |-> None,
     price_max |-> None, palabras_clave |-> <<>>]

\* the queries: each criterion alone over all its values, and all of them together
Queries ==
    {[NoFilter EXCEPT !.dormitorios = d] : d \in DormReqs}
      \cup {[NoFilter EXCEPT !.banos = b] : b \in BanosReqs}
      \cup {[NoFilter EXCEPT !.price_min = lo, !.price_max = hi] :
                lo \in PriceMins, hi \in PriceMaxs}
      \cup {[NoFilter EXCEPT !.palabras_clave = k] : k \in Keywords}
      \cup {[dormitorios |-> <<"2">>, banos |-> <<"1">>, price_min |-> lo,
             price_max |-> hi, palabras_clave |-> k] :
                lo \in PriceMins, hi \in PriceMaxs, k \in {<<>>, sPool}}

(***************************************************************************)
(* The filter engine run twice on one table: heap[1] is the caller's       *)
(* table, args.table its value at the call, ret the references returned so *)
(* far (ret.snap: the value of each strict result when it was returned).   *)
(***************************************************************************)
InitFilter ==
    /\ pc = "strict"
    /\ \E t \in InputTables, q \in Queries :
            /\ heap = <<t>>
            /\ args = [fn |-> "filter_engine", table |-> t, q |-> q]
    /\ ret = [strict |-> <<>>, snap |-> <<>>, final |-> <<>>]
    /\ returned = <<>>
    /\ frames = <<>>

\* the strict result r is recorded
StrictReturns(r) ==
    /\ heap' = r.heap
    /\ ret' = [ret EXCEPT !.strict = Append(@, r.ref),
                          !.snap = Append(@, r.heap[r.ref])]

CallFilterStrict ==
    /\ pc = "strict"
    /\ StrictReturns(_filter_df_strict(heap, 1, args.q.dormitorios, args.q.banos,
                                       args.q.price_min, args.q.price_max))
    /\ pc' = "keywords"
    /\ UNCHANGED <<args, returned, frames>>

\* the keyword result r is recorded
KeywordsReturns(r) ==
    /\ heap' = r.heap
    /\ ret' = [ret EXCEPT !.final = Append(@, r.ref)]

CallFilterKeywords ==
    /\ pc = "keywords"
    /\ KeywordsReturns(_filter_by_keywords(heap, ret.strict[Len(ret.strict)],
                                           args.q.palabras_clave))
    /\ pc' = IF ret.final = <<>> THEN "strict" ELSE "done"
    /\ UNCHANGED <<args, returned, frames>>

NextFilter == CallFilterStrict \/ CallFilterKeywords

SpecFilter == InitFilter /\ [][NextFilter]_vars

(***************************************************************************)
(* The aggregator run_scrapers                                             *)
(***************************************************************************)
SCRAPERS == <<"nestoria", "infocasas", "properati", "doomos">>
\* line 632: the sources the keyword filter is not applied to
KeywordExempt == {"urbania", "doomos", "properati"}

\* pd.DataFrame(results): a list of dicts, one per listing
DataFrameOf(rows) ==
    [columns |-> IF rows = <<>> THEN {} ELSE RequiredColumns, rows |-> rows]

\* a faulty variant: no try/except around the extractor
call_unguarded(out) ==
    IF out.kind = "raise" THEN [raised |-> TRUE, df |-> pd_DataFrame]
    ELSE [raised |-> FALSE, df |-> DataFrameOf(out.rows)]

\* lines 611-615: the extractor is called; an exception is logged and replaced
\* by an empty table
call_scraper(out) ==
    IF out.kind = "raise" THEN [raised |-> FALSE, df |-> pd_DataFrame]
    ELSE [raised |-> FALSE, df |-> DataFrameOf(out.rows)]

\* line 627: .astype(str).str.strip().replace({None: "", "None": ""})
normalise_cell(v) ==
    LET t == strip(v) IN IF t = <<"N","o","n","e">> THEN <<>> ELSE t
\* lines 620-627: the required columns exist and hold trimmed strings
normalise(df) ==
    [columns |-> df.columns \cup RequiredColumns,
     rows |-> [i \in 1..Len(df.rows) |->
                 [c \in DOMAIN df.rows[i] \cup RequiredColumns |->
                     IF c \in DOMAIN df.rows[i]
                     THEN (IF c \in RequiredColumns THEN normalise_cell(df.rows[i][c])
                           ELSE df.rows[i][c])
                     ELSE <<>>]]]

\* the table a filter returned
deref(x) == x.heap[x.ref]

\* a faulty variant: the keyword filter is applied to every source
keywords_always(name, s, palabras_clave) ==
    IF palabras_clave # <<>> /\ strip(palabras_clave) # <<>>
    THEN _filter_by_keywords(s.heap, s.ref, palabras_clave)
    ELSE s

\* lines 632-635: the keyword filter on the strict result s, unless exempted
keywords_unless_exempt(name, s, palabras_clave) ==
    IF palabras_clave # <<>> /\ strip(palabras_clave) # <<>>
          /\ name \notin KeywordExempt
    THEN _filter_by_keywords(s.heap, s.ref, palabras_clave)
    ELSE s

\* lines 629-635: the strict filter, then the keyword filter
filter_source(name, df, q) ==
    deref(keywords_unless_exempt(name,
            _filter_df_strict(<<df>>, 1, q.dormitorios, q.banos, q.price_min,
                              q.price_max),
            q.palabras_clave))

\* a faulty variant: one id for all the rows of a source
stamp_one_id(df, name, now, used) ==
    [columns |-> df.columns \cup {"fuente", "scraped_at", "id"},
     rows |-> [i \in 1..Len(df.rows) |->
                 ("fuente" :> name) @@ ("scraped_at" :> now) @@ ("id" :> used + 1)
                    @@ df.rows[i]]]

\* lines 639-641: fuente, scraped_at and a fresh id on every row; now is the
\* reading of the clock, used the number of ids handed out so far (uuid4 is
\* modelled as never repeating)
stamp(df, name, now, used) ==
    [columns |-> df.columns \cup {"fuente", "scraped_at", "id"},
     rows |-> [i \in 1..Len(df.rows) |->
                 ("fuente" :> name) @@ ("scraped_at" :> now) @@ ("id" :> used + i)
                    @@ df.rows[i]]]

RECURSIVE CountRows(_)
CountRows(fs) == IF fs = <<>> THEN 0 ELSE Len(Head(fs).rows) + CountRows(Tail(fs))

\* lines 637-642: a non-empty filtered table is stamped and appended to frames
append_stamped(fs, df_filtered, name, now) ==
    IF Len(df_filtered.rows) > 0
    THEN Append(fs, stamp(df_filtered, name, now, CountRows(fs)))
    ELSE fs

\* lines 617-642: one iteration of the loop, from the extractor's table to frames
loop_body(name, df, q, fs, now) ==
    append_stamped(fs, filter_source(name, normalise(df), q), name, now)

\* the rows of b after the rows of a
concat_two(a, b) == [columns |-> a.columns \cup b.columns, rows |-> a.rows \o b.rows]
\* pd.concat(frames, ignore_index=True, sort=False)
RECURSIVE concat(_)
concat(fs) == IF fs = <<>> THEN pd_DataFrame ELSE concat_two(Head(fs), concat(Tail(fs)))

\* a faulty variant: only links that are exactly "#" are dropped
drop_anchor_only(df) ==
    LET keep(row) == row["link"] # <<"#">>
    IN  [columns |-> df.columns, rows |-> SelectSeq(df.rows, keep)]

\* line 649: combined[~combined["link"].str.startswith("#")]
drop_anchor_links(df) ==
    LET keep(row) == ~startswith(row["link"], <<"#">>)
    IN  [columns |-> df.columns, rows |-> SelectSeq(df.rows, keep)]

\* line 650: combined[combined["link"] != ""]
drop_empty_links(df) ==
    LET keep(row) == row["link"] # <<>>
    IN  [columns |-> df.columns, rows |-> SelectSeq(df.rows, keep)]

SameKey(a, b) == a["link"] = b["link"] /\ a["titulo"] = b["titulo"]

\* a faulty variant: keep="last"
drop_duplicates_last(df) ==
    [columns |-> df.columns,
     rows |-> take_mask(df.rows,
                [i \in 1..Len(df.rows) |->
                    ~\E j \in (i + 1)..Len(df.rows) : SameKey(df.rows[j], df.rows[i])])]

\* line 651: drop_duplicates(subset=["link","titulo"], keep="first")
drop_duplicates(df) ==
    [columns |-> df.columns,
     rows |-> take_mask(df.rows,
                [i \in 1..Len(df.rows) |->
                    ~\E j \in 1..(i - 1) : SameKey(df.rows[j], df.rows[i])])]

\* a faulty variant: the list of frames is concatenated even when it is empty, and
\* pd.concat raises on an empty list
combine_unguarded(fs) ==
    IF fs = <<>> THEN [raised |-> TRUE, df |-> pd_DataFrame]
    ELSE [raised |-> FALSE,
          df |-> drop_duplicates(drop_empty_links(drop_anchor_links(concat(fs))))]

\* lines 644-653
combine(fs) ==
    IF fs = <<>> THEN [raised |-> FALSE, df |-> pd_DataFrame]
    ELSE [raised |-> FALSE,
          df |-> drop_duplicates(drop_empty_links(drop_anchor_links(concat(fs))))]

(***************************************************************************)
(* One run of run_scrapers.  args.q is the query, args.listed the listings *)
(* the sites hold during the run; each source's extractor raises or        *)
(* returns some of them.  returned records what each extractor did, frames *)
(* is the list of stamped tables, ret the table returned to the caller.    *)
(***************************************************************************)
\* a price without digits, on a listing with a usable link
L7 == Listing(<<"C">>, <<"S","/">>, <<>>, <<"2">>, <<"1">>, <<>>, <<"w">>)

Scenarios ==
    { [q |-> NoFilter, listed |-> {L1, L2, L5, L6}],
      [q |-> [NoFilter EXCEPT !.price_min = Some(9), !.price_max = Some(9)],
       listed |-> {L1, L2, L3, L4}],
      [q |-> [NoFilter EXCEPT !.price_max = Some(9)], listed |-> {L1, L2, L4, L7}],
      [q |-> [NoFilter EXCEPT !.price_min = Some(10)], listed |-> {L1, L2, L3, L7}],
      [q |-> [NoFilter EXCEPT !.dormitorios = <<"2">>, !.palabras_clave = sPool],
       listed |-> {L1, L2, L3, L5}],
      [q |-> NoFilter, listed |-> {L1, L3, L7}] }

\* the most listings the four extractors return in one run
MaxTotal == 2

Outcomes(listed) ==
    {[kind |-> "raise", rows |-> <<>>]}
      \cup {[kind |-> "df", rows |-> r] :
                r \in UNION {[1..n -> listed] : n \in 0..MaxTotal}}

RECURSIVE TotalReturned(_)
TotalReturned(rs) ==
    IF rs = <<>> THEN 0 ELSE Len(Head(rs).rows) + TotalReturned(Tail(rs))

Init ==
    /\ pc = "loop"
    /\ \E sc \in Scenarios : args = [fn |-> "run_scrapers", q |-> sc.q,
                                     listed |-> sc.listed]
    /\ ret = None
    /\ returned = <<>>
    /\ frames = <<>>
    /\ heap = NoHeap

\* the extractor of source name did out, c being what the try statement yields
SourceDone(name, out, c) ==
    /\ returned' = Append(returned, [name |-> name, kind |-> out.kind,
                                     rows |-> out.rows])
    /\ IF c.raised
       THEN pc' = "raised" /\ frames' = frames
       ELSE /\ frames' = loop_body(name, c.df, args.q, frames, Len(returned) + 1)
            /\ pc' = IF Len(returned) + 1 = Len(SCRAPERS) THEN "combine" ELSE "loop"

\* lines 609-642: the loop body for the next source of SCRAPERS
RunSource ==
    /\ pc = "loop"
    /\ \E out \in Outcomes(args.listed) :
        /\ TotalReturned(returned) + Len(out.rows) <= MaxTotal
        /\ SourceDone(SCRAPERS[Len(returned) + 1], out, call_scraper(out))
    /\ UNCHANGED <<args, ret, heap>>

\* run_scrapers returns c.df, or raises
RunReturns(c) ==
    IF c.raised THEN pc' = "raised" /\ ret' = ret
    ELSE pc' = "done" /\ ret' = c.df

\* lines 644-653: after the loop
Combine ==
    /\ pc = "combine"
    /\ RunReturns(combine(frames))
    /\ UNCHANGED <<args, returned, frames, heap>>

Next == RunSource \/ Combine

Spec == Init /\ [][Next]_vars

\* the request is present and not "0"
Requested(req) == req # <<>> /\ strip(req) # <<>> /\ req # <<"0">>
\* the request is a string-encoded whole number, or absent
WellFormed(req) == \A i \in 1..Len(req) : IsDigit(req[i])
\* the field parses to an integer equal to the request
FieldEquals(field, req) ==
    /\ _extract_int_from_text(field) # None
    /\ _extract_int_from_text(field)[1] = WholeNumber(req)
\* the price text parses to a local-currency value within [lo, hi]
LocalValue(text) ==
    IF HasLocalMarker(text) /\ DigitPositions(text) # {}
    THEN Some(WholeNumber(text)) ELSE None
WithinBounds(text, lo, hi) ==
    /\ LocalValue(text) # None
    /\ lo # None => lo[1] <= LocalValue(text)[1]
    /\ hi # None => LocalValue(text)[1] <= hi[1]
PassesStrict(row, q) ==
    /\ Requested(q.dormitorios) => FieldEquals(row["dormitorios"], q.dormitorios)
    /\ Requested(q.banos) => FieldEquals(row["banos"], q.banos)
    /\ (q.price_min # None \/ q.price_max # None
          => WithinBounds(row["precio"], q.price_min, q.price_max))
RowsPassingStrict(rows, q) ==
    LET Test(row) == PassesStrict(row, q) IN SelectSeq(rows, Test)

\* C5: for bedrooms and bathrooms requests that are whole numbers (or absent),
\* _filter_df_strict returns exactly the input rows, in input order, whose field
\* parses to the requested number for each request that is present and not "0";
\* a request that is "0" or empty removes no row.
C5_StrictExact ==
    \A k \in 1..Len(ret.strict) :
        pc \in {"strict", "keywords", "done"}
          /\ WellFormed(args.q.dormitorios) /\ WellFormed(args.q.banos)
        => ret.snap[k].rows = RowsPassingStrict(args.table.rows, args.q)

\* the documented example: bedrooms "1","2","2","x" filtered with request "2"
C5_Witness ==
    /\ pc = "keywords"
    /\ args.table.rows = ExampleRows
    /\ args.q = [NoFilter EXCEPT !.dormitorios = <<"2">>]
    /\ ret.snap[1].rows = <<L1, L2>>

\* the whitespace-separated keywords of a keyword string
KeywordSet(k) ==
    {SubSeq(k, i, j) : <<i, j>> \in
        {x \in (1..Len(k)) \X (1..Len(k)) :
            /\ x[1] <= x[2]
            /\ \A n \in x[1]..x[2] : ~IsSpace(k[n])
            /\ (x[1] = 1 \/ IsSpace(k[x[1] - 1]))
            /\ (x[2] = Len(k) \/ IsSpace(k[x[2] + 1]))}}
\* w occurs in text, letter case ignored
OccursNoCase(w, text) ==
    \E o \in 0..(Len(text) - Len(w)) :
        \A n \in 1..Len(w) : lower_char(text[o + n]) = lower_char(w[n])
SearchedText(row) ==
    row["titulo"] \o <<" ">> \o row["descripcion"] \o <<" ">> \o row["m2"]
        \o <<" ">> \o row["dormitorios"] \o <<" ">> \o row["banos"]
MatchesKeywords(row, k) == \A w \in KeywordSet(k) : OccursNoCase(w, SearchedText(row))

\* C6: _filter_by_keywords keeps a row if and only if every whitespace-separated
\* keyword occurs, letter case ignored, in the row's title, description, area,
\* bedrooms and bathrooms joined by single spaces; an empty or all-whitespace
\* keyword string returns the table it was given.
C6_KeywordsAll ==
    \A k \in 1..Len(ret.final) :
        pc \in {"strict", "keywords", "done"} =>
            LET in == ret.snap[k]
                out == heap[ret.final[k]]
                Test(row) == MatchesKeywords(row, args.q.palabras_clave)
            IN  /\ out.rows = SelectSeq(in.rows, Test)
                /\ out.columns = in.columns
                /\ KeywordSet(args.q.palabras_clave) = {} => ret.final[k] = ret.strict[k]

\* two keywords, one in capitals: of L3 (only "pool") and L1 (both), L1 is kept
C6_Witness ==
    /\ pc = "done"
    /\ args.table.rows = <<L3, L1>>
    /\ args.q = [NoFilter EXCEPT !.palabras_clave = <<"P","O","O","L"," ","a">>]
    /\ heap[ret.final[1]].rows = <<L1>>

\* C8: the filter engine (_filter_df_strict, then _filter_by_keywords) leaves the
\* table it is given unchanged - the caller's table and the strict result handed
\* to the keyword filter - and a second run with the same arguments returns the
\* same tables as the first.
C8_FilterPure ==
    pc \in {"strict", "keywords", "done"} =>
        /\ heap[1] = args.table
        /\ \A k \in 1..Len(ret.final) : heap[ret.strict[k]] = ret.snap[k]
        /\ Len(ret.strict) = 2 => ret.snap[2] = ret.snap[1]
        /\ Len(ret.final) = 2 => heap[ret.final[2]] = heap[ret.final[1]]

\* both stages have removed rows, twice, from a table of several rows
C8_Witness ==
    /\ pc = "done"
    /\ args.q.palabras_clave = sPool /\ args.q.price_min # None
    /\ Len(args.table.rows) = 4
    /\ Len(ret.snap[2].rows) = 2
    /\ Len(heap[ret.final[2]].rows) = 1

(***************************************************************************)
(* Properties of run_scrapers                                              *)
(***************************************************************************)
Finished == pc = "done" /\ args.fn = "run_scrapers"
Running == args.fn = "run_scrapers"
Failed(i) == returned[i].kind = "raise" \/ returned[i].rows = <<>>

\* C1: when all four extractors raise, run_scrapers returns an empty table and
\* raises nothing to its caller.
C1_AllSourcesRaise ==
    Running /\ (\A i \in 1..Len(returned) : returned[i].kind = "raise") =>
        /\ pc # "raised"
        /\ frames = <<>>
        /\ pc = "done" => ret = pd_DataFrame

\* all four extractors have raised and the run has returned
C1_Witness ==
    /\ Finished
    /\ Len(returned) = 4
    /\ \A i \in 1..4 : returned[i].kind = "raise"
    /\ ret.rows = <<>>

\* what line 627 makes of a listing an extractor returned
Normalised(row) == [c \in DOMAIN row |-> normalise_cell(row[c])]
UsableLink(row) == row["link"] # <<>> /\ row["link"][1] # "#"
\* the listing passes the filters run_scrapers applies to source name
Survives(row, name, q) ==
    /\ PassesStrict(row, q)
    /\ name \in {"nestoria", "infocasas"} => MatchesKeywords(row, q.palabras_clave)
    /\ UsableLink(row)
\* the listings of the sources invoked so far that pass the filters, as pairs
\* <<source index, position in the source's result>>, in concatenation order
SurvivorsBefore(i, n) ==
    {x \in (1..Len(returned)) \X (1..MaxTotal + 1) :
        /\ x[2] <= Len(returned[x[1]].rows)
        /\ (x[1] < i \/ (x[1] = i /\ x[2] < n))
        /\ Survives(Normalised(returned[x[1]].rows[x[2]]), returned[x[1]].name, args.q)}
\* row of the final table is the listing at position n of source i
IsListing(row, i, n) ==
    /\ row["fuente"] = returned[i].name
    /\ \A c \in RequiredColumns : row[c] = Normalised(returned[i].rows[n])[c]

\* C2: a source whose extractor raises or returns nothing contributes no record
\* and does not abort the run: the four sources are invoked in registration
\* order whatever the earlier ones did, and every listing of a source that
\* passes the filters is in the final table - itself when no earlier listing
\* that passes has its (link, titulo), that earlier listing otherwise.
C2_FailureIsolated ==
    Running =>
        /\ pc # "raised"
        /\ \A i \in 1..Len(returned) : returned[i].name = SCRAPERS[i]
        /\ pc \in {"combine", "done"} => Len(returned) = Len(SCRAPERS)
        /\ \A k \in 1..Len(frames) : \E i \in 1..Len(returned) :
              ~Failed(i) /\ frames[k].rows[1]["fuente"] = returned[i].name
        /\ pc = "done" =>
              \A i \in 1..Len(returned) : \A n \in 1..Len(returned[i].rows) :
                  LET row == Normalised(returned[i].rows[n])
                  IN  Survives(row, returned[i].name, args.q) =>
                        /\ \E r \in 1..Len(ret.rows) : SameKey(ret.rows[r], row)
                        /\ (\A x \in SurvivorsBefore(i, n) :
                               ~SameKey(Normalised(returned[x[1]].rows[x[2]]), row))
                             => \E r \in 1..Len(ret.rows) : IsListing(ret.rows[r], i, n)

\* a raise, an empty result and a raise around the one source that returns a
\* listing, which is in the final table
C2_Witness ==
    /\ Finished
    /\ returned[1].kind = "raise"
    /\ returned[2].kind = "df" /\ returned[2].rows = <<>>
    /\ returned[3].rows = <<L1>>
    /\ returned[4].kind = "raise"
    /\ Len(ret.rows) = 1 /\ IsListing(ret.rows[1], 3, 1)

\* the index of a source name in SCRAPERS
SourceIndex(name) == CHOOSE i \in 1..Len(SCRAPERS) : SCRAPERS[i] = name

\* C3: the final table holds no two rows with the same (link, titulo); the row
\* kept for a pair is the first row of the concatenation of frames with that
\* pair, and the concatenation is in registration order of the sources.
C3_DedupKeepsFirst ==
    Finished =>
        LET all == concat(frames).rows
        IN  /\ \A a, b \in 1..Len(ret.rows) :
                  SameKey(ret.rows[a], ret.rows[b]) => a = b
            /\ \A a \in 1..Len(ret.rows) :
                  \E j \in 1..Len(all) :
                      /\ all[j] = ret.rows[a]
                      /\ \A m \in 1..(j - 1) : ~SameKey(all[m], all[j])
            /\ \A j \in 1..Len(all) : \A m \in 1..(j - 1) :
                  SourceIndex(all[m]["fuente"]) <= SourceIndex(all[j]["fuente"])
            /\ \A j \in 1..Len(all) :
                  UsableLink(all[j]) => \E a \in 1..Len(ret.rows) : SameKey(ret.rows[a], all[j])

\* nestoria returned L2 and properati L1, which has the same (link, titulo):
\* the final table holds nestoria's L2 only
C3_Witness ==
    /\ Finished
    /\ returned[1].rows = <<L2>> /\ returned[3].rows = <<L1>>
    /\ Len(concat(frames).rows) = 2
    /\ Len(ret.rows) = 1 /\ IsListing(ret.rows[1], 1, 1)

\* two listings of one source with the same (link, titulo): the first is kept
C3_WitnessSameSource ==
    /\ Finished
    /\ returned[2].rows = <<L1, L2>>
    /\ Len(ret.rows) = 1 /\ IsListing(ret.rows[1], 2, 1)

\* C4: when price_min and/or price_max is given, every row of the final table is
\* a listing some extractor returned whose price text has the "S/" marker and
\* digits that read as a number within [price_min, price_max], each bound
\* inclusive and absent bounds unbounded.
C4_PriceRange ==
    Finished /\ (args.q.price_min # None \/ args.q.price_max # None) =>
        \A r \in 1..Len(ret.rows) :
            /\ WithinBounds(ret.rows[r]["precio"], args.q.price_min, args.q.price_max)
            /\ \E i \in 1..Len(returned) : \E n \in 1..Len(returned[i].rows) :
                  IsListing(ret.rows[r], i, n)

\* with both bounds at 9, a source returned a foreign-currency listing and a
\* local one priced 9: only the second is in the final table
C4_Witness ==
    /\ Finished
    /\ args.q.price_min = Some(9) /\ args.q.price_max = Some(9)
    /\ returned[2].rows = <<L3, L1>>
    /\ Len(ret.rows) = 1 /\ IsListing(ret.rows[1], 2, 2)

\* C7: no row of the table run_scrapers returns has an empty link or a link that
\* begins with "#".
C7_UsableLinks ==
    Finished => \A r \in 1..Len(ret.rows) :
        /\ ret.rows[r]["link"] # <<>>
        /\ ret.rows[r]["link"][1] # "#"

\* an anchor link and a link normalised to "" were returned, and dropped
C7_Witness ==
    /\ Finished
    /\ returned[1].rows = <<L5>> /\ returned[2].rows = <<L6>>
    /\ Len(frames) = 2
    /\ ret.rows = <<>>

\* the listing passes the filters of lines 629-635 for source name
PassesFilters(row, name, q) ==
    /\ PassesStrict(row, q)
    /\ name \notin KeywordExempt => MatchesKeywords(row, q.palabras_clave)
\* the positions of source i's result that pass them
Filtered(i) ==
    {n \in 1..Len(returned[i].rows) :
        PassesFilters(Normalised(returned[i].rows[n]), returned[i].name, args.q)}
\* the frame that source i added to frames, when it added one
FramesOf(i) == {k \in 1..Len(frames) : frames[k].rows[1]["fuente"] = returned[i].name}

\* C13: every source's records go through the strict filter and then, except
\* for properati and doomos, through the keyword filter: with keywords given, a
\* record of properati or doomos that passes the strict filter is stamped and
\* concatenated whatever its text, and is in the final table when its link is
\* usable (itself, or the earlier record with its link and title); a record of
\* nestoria or infocasas is there only if it passes the strict filter and
\* matches every keyword.
C13_KeywordExemption ==
    Running /\ strip(args.q.palabras_clave) # <<>> =>
        /\ \A k \in 1..Len(frames) : \A r \in 1..Len(frames[k].rows) :
              /\ PassesStrict(frames[k].rows[r], args.q)
              /\ frames[k].rows[r]["fuente"] \in {"nestoria", "infocasas"}
                    => MatchesKeywords(frames[k].rows[r], args.q.palabras_clave)
        /\ \A i \in 1..Len(returned) : \A n \in 1..Len(returned[i].rows) :
              /\ returned[i].name \in {"properati", "doomos"}
              /\ PassesStrict(Normalised(returned[i].rows[n]), args.q)
              => /\ \E k \in 1..Len(frames) : \E r \in 1..Len(frames[k].rows) :
                        IsListing(frames[k].rows[r], i, n)
                 /\ pc = "done" /\ UsableLink(Normalised(returned[i].rows[n]))
                      => \E r \in 1..Len(ret.rows) :
                            SameKey(ret.rows[r], Normalised(returned[i].rows[n]))
        /\ pc = "done" =>
              \A r \in 1..Len(ret.rows) :
                  /\ PassesStrict(ret.rows[r], args.q)
                  /\ ret.rows[r]["fuente"] \in {"nestoria", "infocasas"}
                        => MatchesKeywords(ret.rows[r], args.q.palabras_clave)

\* with the keyword "pool", nestoria and properati both returned L2, which
\* passes the strict filter and has no "pool": the final table holds
\* properati's record only
C13_Witness ==
    /\ Finished
    /\ args.q.palabras_clave = sPool
    /\ returned[1].rows = <<L2>> /\ returned[3].rows = <<L2>>
    /\ PassesStrict(Normalised(L2), args.q)
    /\ ~MatchesKeywords(Normalised(L2), args.q.palabras_clave)
    /\ Len(ret.rows) = 1 /\ IsListing(ret.rows[1], 3, 1)

\* C15: every row of the final table has the fuente of the extractor that
\* returned its listing, the scraped_at read in that source's iteration and an
\* id; no two rows of one final table have the same id; a source whose filtered
\* result is empty adds no frame, and every other source adds one frame holding
\* its filtered listings.
C15_Stamped ==
    Running =>
        /\ \A i \in 1..Len(returned) :
              /\ Filtered(i) = {} => FramesOf(i) = {}
              /\ Filtered(i) # {} =>
                    /\ Cardinality(FramesOf(i)) = 1
                    /\ \A k \in FramesOf(i) :
                          /\ Len(frames[k].rows) = Cardinality(Filtered(i))
                          /\ \A r \in 1..Len(frames[k].rows) : \E n \in Filtered(i) :
                                IsListing(frames[k].rows[r], i, n)
        /\ \A k \in 1..Len(frames) :
              /\ frames[k].rows # <<>>
              /\ \E i \in 1..Len(returned) : k \in FramesOf(i)
        /\ pc = "done" =>
              /\ \A r \in 1..Len(ret.rows) :
                    /\ {"fuente", "scraped_at", "id"} \subseteq DOMAIN ret.rows[r]
                    /\ \E i \in 1..Len(returned) :
                          /\ ret.rows[r]["scraped_at"] = i
                          /\ \E n \in Filtered(i) : IsListing(ret.rows[r], i, n)
              /\ \A a, b \in 1..Len(ret.rows) :
                    ret.rows[a]["id"] = ret.rows[b]["id"] => a = b

\* nestoria returned nothing that passes, infocasas two listings and properati
\* none: one frame, and a final table of infocasas' two rows with different ids
C15_Witness ==
    /\ Finished
    /\ returned[1].rows = <<>> /\ returned[2].rows = <<L1, L7>>
    /\ Len(frames) = 1
    /\ Len(ret.rows) = 2
    /\ ret.rows[1]["fuente"] = "infocasas" /\ ret.rows[2]["fuente"] = "infocasas"
    /\ ret.rows[1]["id"] # ret.rows[2]["id"]

(***************************************************************************)
(* The query URL of each source, built for one zone typed two ways:        *)
(* args.zona as the caller typed it and args.canon as the tables spell it. *)
(* returned holds, per source, the slug or location id and the URL of each.*)
(***************************************************************************)
TableZones(table) == {table[k][1] : k \in 1..Len(table)}

\* the zone names of the tables, a zone no table has, and no zone
UrlZones ==
    TableZones(ZONA_MAPEO_INFOCASAS) \cup TableZones(ZONA_MAPEO_PROPERATI)
        \cup TableZones(ZONA_IDS_CORRECTOS)
        \cup {EXCEPCIONES[k] : k \in 1..Len(EXCEPCIONES)}
        \cup { <<"s","u","r"," ","x">>, <<>> }

UrlQueries ==
    { NoFilter,
      [dormitorios |-> <<"2">>, banos |-> <<"1">>, price_min |-> Some(9),
       price_max |-> Some(12), palabras_clave |-> <<"P","i","s","c","i","n","a"," ","x">>],
      [NoFilter EXCEPT !.banos = <<"1">>, !.palabras_clave = <<" ">>],
      [NoFilter EXCEPT !.dormitorios = <<"3">>, !.price_min = Some(0)] }

InitUrl ==
    /\ pc = "url"
    /\ \E z \in UrlZones, q \in UrlQueries :
         \E c \in CaseVariants(z) : \E v \in PadVariants(c) :
            args = [fn |-> "url", zona |-> v, canon |-> z, q |-> q]
    /\ ret = None
    /\ returned = <<>>
    /\ frames = <<>>
    /\ heap = NoHeap

\* source name has built its URL for the zone as typed and as the tables spell it
UrlBuilt(name, typed, canon) ==
    /\ returned' = Append(returned, [name |-> name, typed |-> typed, canon |-> canon])
    /\ pc' = IF Len(returned) + 1 = Len(SCRAPERS) THEN "done" ELSE "url"
    /\ UNCHANGED <<args, ret, frames, heap>>

UrlNestoria ==
    /\ pc = "url" /\ SCRAPERS[Len(returned) + 1] = "nestoria"
    /\ UrlBuilt("nestoria", nestoria_url(args.zona, args.q),
                nestoria_url(args.canon, args.q))

UrlInfocasas ==
    /\ pc = "url" /\ SCRAPERS[Len(returned) + 1] = "infocasas"
    /\ UrlBuilt("infocasas", infocasas_url(args.zona, args.q),
                infocasas_url(args.canon, args.q))

UrlProperati ==
    /\ pc = "url" /\ SCRAPERS[Len(returned) + 1] = "properati"
    /\ UrlBuilt("properati", properati_url(args.zona, args.q),
                properati_url(args.canon, args.q))

UrlDoomos ==
    /\ pc = "url" /\ SCRAPERS[Len(returned) + 1] = "doomos"
    /\ UrlBuilt("doomos", doomos_url(args.zona, args.q), doomos_url(args.canon, args.q))

NextUrl == UrlNestoria \/ UrlInfocasas \/ UrlProperati \/ UrlDoomos

SpecUrl == InitUrl /\ [][NextUrl]_vars

\* the zone is one of the names the source's table (for Nestoria, its list) has
InTable(name, z) ==
    CASE name = "nestoria" -> z \in {EXCEPCIONES[k] : k \in 1..Len(EXCEPCIONES)}
      [] name = "infocasas" -> z \in TableZones(ZONA_MAPEO_INFOCASAS)
      [] name = "properati" -> z \in TableZones(ZONA_MAPEO_PROPERATI)
      [] name = "doomos" -> z \in TableZones(ZONA_IDS_CORRECTOS)

\* C11: for each source and every zone name of its table, two inputs that differ
\* only in letter case and surrounding whitespace get the same slug or location
\* id and the same query URL.
C11_SameUrl ==
    \A k \in 1..Len(returned) :
        args.fn = "url" /\ InTable(returned[k].name, args.canon) =>
            /\ returned[k].typed.slug = returned[k].canon.slug
            /\ returned[k].typed.url = returned[k].canon.url

\* the Doomos parameters of the two inputs agree but for loc_name, which carries
\* the trimmed zone as typed
SameButLocName(a, b) ==
    /\ Len(a) = Len(b)
    /\ \A i \in 1..Len(a) :
          /\ a[i][1] = b[i][1]
          /\ a[i][1] # kLocName => a[i][2] = b[i][2]
          /\ a[i][1] = kLocName =>
                /\ a[i][2] = strip(args.zona) \o DoomosRegion
                /\ lower(a[i][2]) = lower(b[i][2])

\* C11, amended: for each source and every zone name of its table, two inputs
\* that differ only in letter case and surrounding whitespace get the same slug
\* or location id; Nestoria, Infocasas and Properati then build the same query
\* URL, and Doomos builds URLs that agree in every parameter except loc_name,
\* which is the trimmed zone as typed followed by " (Región de Lima)".
C11_SameSlug ==
    \A k \in 1..Len(returned) :
        args.fn = "url" /\ InTable(returned[k].name, args.canon) =>
            /\ returned[k].typed.slug = returned[k].canon.slug
            /\ returned[k].typed.slug # <<>>
            /\ returned[k].name # "doomos" =>
                  returned[k].typed.url = returned[k].canon.url
            /\ returned[k].name = "doomos" =>
                  SameButLocName(returned[k].typed.params, returned[k].canon.params)

\* " LIMA " and "lima" have gone through the four sources: the same slug and URL
\* at Infocasas, the same location id and different URLs at Doomos
C11_Witness ==
    /\ pc = "done" /\ args.fn = "url"
    /\ args.canon = <<"l","i","m","a">> /\ args.zona = <<" ","L","I","M","A"," ">>
    /\ returned[2].typed.slug = Some(<<"l","i","m","a","-","c","e","r","c","a","d","o">>)
    /\ returned[2].typed.url = returned[2].canon.url
    /\ returned[4].typed.slug = returned[4].canon.slug
    /\ returned[4].typed.url # returned[4].canon.url

(***************************************************************************)
(* The extractors.  A page is what the fetch returned: ok tells whether it *)
(* succeeded and queries holds, for each structural query of the source in *)
(* the order the code tries them, the nodes the query yields.  A node is   *)
(* what the selectors of the extractors find in it: its anchor a (with the *)
(* attributes data_href and href, "" when absent, and its text), the text  *)
(* of its title, price and description elements, its flattened text, the   *)
(* texts of its typology tags, of its bedrooms, bathrooms and area         *)
(* elements, and the source of its image.  An element that is not there is *)
(* None.                                                                   *)
(***************************************************************************)
\* x or y, of two strings or of two lists
py_or(x, y) == IF x # <<>> THEN x ELSE y
\* s[:n]
prefix(s, n) == SubSeq(s, 1, IF Len(s) < n THEN Len(s) ELSE n)
\* elem.get_text(" ", strip=True) if elem else default
text_or(elem, default) == IF elem # None THEN elem[1] ELSE default

\* if link and link.startswith("/"): link = host + link
absolute(link, host) ==
    IF link # <<>> /\ startswith(link, <<"/">>) THEN host \o link ELSE link

sHttps == <<"h","t","t","p","s",":">>
sHttpsImg == <<"h","t","t","p","s",":","/","/","i","m","g">>

\* lines 147-153: the image URL, protocol-relative ones given the scheme
image_url(img) ==
    IF img = None THEN <<>>
    ELSE strip(IF img[1] # <<>> /\ startswith(img[1], <<"/","/">>)
               THEN sHttps \o img[1] ELSE img[1])

\* lines 396-409: Properati keeps only the images of its image host
properati_image(img) ==
    IF img = None THEN <<>>
    ELSE IF img[1] # <<>> /\ startswith(img[1], sHttpsImg) THEN strip(img[1])
    ELSE IF img[1] # <<>> /\ startswith(img[1], <<"/","/">>)
         THEN (IF startswith(sHttps \o img[1], sHttpsImg)
               THEN strip(sHttps \o img[1]) ELSE <<>>)
    ELSE <<>>

\* s, after any whitespace, goes on with one of the words
FollowedBy(s, words) == \E w \in words : startswith(lstrip(s), w)

\* re.search(r'(\d{1,most})\s*(w1|w2|...)', text): group 1 of the leftmost match,
\* None when there is no match
RECURSIVE search_count(_, _, _)
search_count(text, most, words) ==
    IF text = <<>> THEN None
    ELSE IF /\ IsDigit(Head(text))
            /\ DigitRunLen(text) <= most
            /\ FollowedBy(SubSeq(text, DigitRunLen(text) + 1, Len(text)), words)
         THEN Some(SubSeq(text, 1, DigitRunLen(text)))
         ELSE search_count(Tail(text), most, words)
\* the pattern with (\d+)
search_number(text, words) == search_count(text, Len(text), words)
\* m.group(1) if m, else the "" the variable was set to
group_or_empty(m) == IF m # None THEN m[1] ELSE <<>>

sDormitori == <<"d","o","r","m","i","t","o","r","i">>
sBan == <<"b","a","ñ">>
sM2 == <<"m","2">>
sM2Sup == <<"m","²">>
sDormitorio == <<"d","o","r","m","i","t","o","r","i","o">>
sBano == <<"b","a","ñ","o">>
sDorm == <<"D","o","r","m">>
sBanoCap == <<"B","a","ñ","o">>
sBanosCap == <<"B","a","ñ","o","s">>

\* the dict appended to results
Record(titulo, precio, m2, dormitorios, banos, descripcion, link, imagen_url) ==
    [titulo |-> titulo, precio |-> precio, m2 |-> m2, dormitorios |-> dormitorios,
     banos |-> banos, descripcion |-> descripcion, link |-> link,
     imagen_url |-> imagen_url]

\* a faulty variant: the nodes of the looser query are added to those found
both_queries(items, looser) == items \o looser

\* lines 98-102, 226, 359: the nodes of a query are used when it found some, those
\* of the next query otherwise
first_nonempty(items, looser) == IF items # <<>> THEN items ELSE looser

\* ---- Nestoria ----
\* lines 98-102
nestoria_items(queries) ==
    first_nonempty(first_nonempty(first_nonempty(queries[1], queries[2]), queries[3]),
                   queries[4])

\* line 110-112
nestoria_link(a) == absolute(py_or(py_or(a.data_href, a.href), <<>>), NestoriaHost)

\* lines 123-128, p being parse_precio_con_moneda(price_text)
price_excluded(p, price_min, price_max) ==
    \/ price_max # None /\ p.moneda = Some("S") /\ p.val # None /\ p.val[1] > price_max[1]
    \/ price_min # None /\ p.moneda = Some("S") /\ p.val # None /\ p.val[1] < price_min[1]
    \/ p.moneda = Some("USD") /\ (price_max # None \/ price_min # None)
\* lines 119-128
early_excluded(li, price_min, price_max) ==
    price_excluded(parse_precio_con_moneda(text_or(li.price, <<>>)), price_min, price_max)

\* lines 116-164: the record of a node that is kept
nestoria_record(li) ==
    Record(text_or(li.title, li.a[1].text),
           text_or(li.price, <<>>),
           group_or_empty(search_count(lower(li.text), 4, {sM2Sup, sM2})),
           group_or_empty(search_number(lower(li.text), {sDormitori})),
           group_or_empty(search_number(lower(li.text), {sBan})),
           text_or(li.desc, prefix(li.text, 800)),
           nestoria_link(li.a[1]),
           image_url(li.img))

\* lines 107-128: the node is passed over
nestoria_skips(li, seen_links, price_min, price_max) ==
    \/ li.a = None
    \/ nestoria_link(li.a[1]) = <<>>
    \/ nestoria_link(li.a[1]) \in seen_links
    \/ early_excluded(li, price_min, price_max)

\* lines 104-168: the loop over the nodes
RECURSIVE nestoria_loop(_, _, _, _, _)
nestoria_loop(items, price_min, price_max, results, seen_links) ==
    IF items = <<>> THEN results
    ELSE IF nestoria_skips(Head(items), seen_links, price_min, price_max)
         THEN nestoria_loop(Tail(items), price_min, price_max, results, seen_links)
         ELSE nestoria_loop(Tail(items), price_min, price_max,
                            Append(results, nestoria_record(Head(items))),
                            seen_links \cup {nestoria_link(Head(items).a[1])})

\* lines 93-171: the nodes selected and the records returned
scrape_nestoria(page, q) ==
    IF ~page.ok THEN [items |-> <<>>, rows |-> <<>>]
    ELSE [items |-> nestoria_items(page.queries),
          rows |-> nestoria_loop(nestoria_items(page.queries), q.price_min,
                                 q.price_max, <<>>, {})]

\* ---- Infocasas ----
\* lines 246-259: the typology tags, a later tag of a kind replacing an earlier one
RECURSIVE typology(_, _)
typology(tags, found) ==
    IF tags = <<>> THEN found
    ELSE typology(Tail(tags),
            IF Contains(sDorm, strip(Head(tags)))
            THEN [found EXCEPT !.dormitorios =
                    py_or(group_or_empty(search_digits(strip(Head(tags)))), @)]
            ELSE IF Contains(sBanosCap, strip(Head(tags)))
                      \/ Contains(sBanoCap, strip(Head(tags)))
            THEN [found EXCEPT !.banos =
                    py_or(group_or_empty(search_digits(strip(Head(tags)))), @)]
            ELSE IF Contains(sM2Sup, strip(Head(tags)))
            THEN [found EXCEPT !.m2 =
                    py_or(group_or_empty(search_digits(strip(Head(tags)))), @)]
            ELSE found)

NoTypology == [dormitorios |-> <<>>, banos |-> <<>>, m2 |-> <<>>]

\* lines 232-281, t being the typology found
infocasas_record(n, t) ==
    Record(text_or(n.title, n.a[1].text),
           text_or(n.price, <<>>),
           t.m2, t.dormitorios, t.banos,
           text_or(n.desc, prefix(n.text, 400)),
           py_or(absolute(n.a[1].href, InfocasasHost), <<>>),
           image_url(n.img))

\* lines 227-284
RECURSIVE infocasas_loop(_, _)
infocasas_loop(nodes, results) ==
    IF nodes = <<>> THEN results
    ELSE IF Head(nodes).a = None THEN infocasas_loop(Tail(nodes), results)
    ELSE infocasas_loop(Tail(nodes),
            Append(results,
                   infocasas_record(Head(nodes), typology(Head(nodes).typology,
                                                          NoTypology))))

\* lines 221-286
scrape_infocasas(page, q) ==
    IF ~page.ok THEN [items |-> <<>>, rows |-> <<>>]
    ELSE [items |-> first_nonempty(page.queries[1], page.queries[2]),
          rows |-> infocasas_loop(first_nonempty(page.queries[1], page.queries[2]),
                                  <<>>)]

\* ---- Properati ----
\* lines 372-394: the first number of an element's text, "" without element or number
number_of(elem) == IF elem = None THEN <<>> ELSE group_or_empty(search_digits(elem[1]))

\* line 367
properati_title(c) == IF c.a # None THEN c.a[1].text ELSE prefix(c.text, 140)
\* lines 364-366
properati_href(c) == absolute(IF c.a # None THEN c.a[1].href ELSE <<>>, ProperatiHost)

\* lines 363-420
properati_record(c) ==
    Record(properati_title(c),
           text_or(c.price, <<>>),
           number_of(c.area), number_of(c.bedrooms), number_of(c.bathrooms),
           properati_title(c),
           py_or(properati_href(c), <<>>),
           properati_image(c.img))

\* lines 361-423
properati_loop(cards) == [i \in 1..Len(cards) |-> properati_record(cards[i])]

\* lines 351-425
scrape_properati(page, q) ==
    IF ~page.ok THEN [items |-> <<>>, rows |-> <<>>]
    ELSE [items |-> first_nonempty(first_nonempty(page.queries[1], page.queries[2]),
                                   page.queries[3]),
          rows |-> properati_loop(
                     first_nonempty(first_nonempty(page.queries[1], page.queries[2]),
                                    page.queries[3]))]

\* ---- Doomos ----
\* lines 493-535
doomos_record(card) ==
    Record(card.a[1].text,
           text_or(card.price, <<>>),
           group_or_empty(search_number(lower(card.text), {sM2})),
           group_or_empty(search_number(lower(card.text), {sDormitorio})),
           group_or_empty(search_number(lower(card.text), {sBano})),
           text_or(card.desc, prefix(card.text, 400)),
           absolute(py_or(card.a[1].href, <<>>), DoomosHost),
           image_url(card.img))

\* lines 488-538
RECURSIVE doomos_loop(_, _)
doomos_loop(cards, results) ==
    IF cards = <<>> THEN results
    ELSE IF Head(cards).a = None THEN doomos_loop(Tail(cards), results)
    ELSE doomos_loop(Tail(cards), Append(results, doomos_record(Head(cards))))

\* lines 478-540
scrape_doomos(page, q) ==
    IF ~page.ok \/ page.queries[1] = <<>> THEN [items |-> <<>>, rows |-> <<>>]
    ELSE [items |-> page.queries[1], rows |-> doomos_loop(page.queries[1], <<>>)]

(***************************************************************************)
(* Pages given to the extractors                                           *)
(***************************************************************************)
Anchor(data_href, href, text) == Some([data_href |-> data_href, href |-> href, text |-> text])

Node(a, title, price, text) ==
    [a |-> a, title |-> title, price |-> price, desc |-> None, text |-> text,
     typology |-> <<>>, bedrooms |-> None, bathrooms |-> None, area |-> None,
     img |-> None]

\* a relative link, no title element, S/ 12
N1 == Node(Anchor(<<>>, <<"/","a">>, <<"A">>), None, Some(sSoles12),
           <<"A"," ","2"," ","D","o","r","m","i","t","o","r","i","o","s">>)
\* the link of N1, S/ 9
N2 == Node(Anchor(<<>>, <<"/","a">>, <<"B">>), Some(<<"B">>), Some(sSoles9),
           <<"B"," ","9","m","2"," ","1"," ","b","a","ñ","o">>)
\* an anchor whose link value is empty
N3 == Node(Anchor(<<>>, <<>>, <<"C">>), None, Some(sSoles9), <<"C">>)
\* no anchor
N4 == Node(None, Some(<<"D">>), Some(sSoles9), <<"D">>)
\* a data-href next to the href, a foreign price, typology tags, an image
N5 == [Node(Anchor(<<"v">>, <<"/","w">>, <<"E">>), None, Some(<<"$"," ","9">>), <<"E">>)
         EXCEPT !.desc = Some(sPool),
                !.typology = << <<"2"," ","D","o","r","m",".">>, <<" ","1"," ","B","a","ñ","o">>,
                                <<"7","0"," ","m","²">> >>,
                !.bedrooms = Some(<<"3"," ","h","a","b">>),
                !.img = Some(<<"/","/","i","m","g",".","x"," ">>)]
\* an absolute link, no price element
N6 == Node(Anchor(<<>>, <<"u">>, <<"F">>), Some(<<"F">>), None, <<"F">>)

Nodes == {N1, N2, N3, N4, N5, N6}

\* the most nodes the first query of a page yields
MaxNodes == 2

NodeLists == UNION {[1..n -> Nodes] : n \in 0..MaxNodes}
\* what the looser queries of a page yield
LooserLists == { <<>>, <<N5>>, <<N4, N1>> }

\* the number of structural queries of each source
QueryCount ==
    [name \in {"nestoria", "infocasas", "properati", "doomos"} |->
        CASE name = "nestoria" -> 4
          [] name = "infocasas" -> 2
          [] name = "properati" -> 3
          [] name = "doomos" -> 1]

Pages(name) ==
    {[ok |-> TRUE, queries |-> <<first>> \o rest] :
        first \in NodeLists, rest \in [1..(QueryCount[name] - 1) -> LooserLists]}
      \cup {[ok |-> FALSE, queries |-> [k \in 1..QueryCount[name] |-> <<>>]]}

ExtractQueries ==
    { NoFilter,
      [NoFilter EXCEPT !.price_max = Some(9)],
      [NoFilter EXCEPT !.price_min = Some(10)] }

(***************************************************************************)
(* One source of a run: its extractor on a page, then the loop body of     *)
(* run_scrapers on what it returned, then the combination.  returned[1]    *)
(* holds the nodes the extractor selected and the records it returned.     *)
(***************************************************************************)
InitExtract ==
    /\ pc = "extract"
    /\ \E i \in 1..Len(SCRAPERS), q \in ExtractQueries :
         \E page \in Pages(SCRAPERS[i]) :
            args = [fn |-> "extract", source |-> SCRAPERS[i], page |-> page, q |-> q]
    /\ ret = None
    /\ returned = <<>>
    /\ frames = <<>>
    /\ heap = NoHeap

\* the extractor of source name returns r
ExtractorReturns(name, r) ==
    /\ returned' = <<[name |-> name, kind |-> "df", rows |-> r.rows, items |-> r.items]>>
    /\ pc' = "filter"
    /\ UNCHANGED <<args, ret, frames, heap>>

ScrapeNestoria ==
    /\ pc = "extract" /\ args.source = "nestoria"
    /\ ExtractorReturns("nestoria", scrape_nestoria(args.page, args.q))

ScrapeInfocasas ==
    /\ pc = "extract" /\ args.source = "infocasas"
    /\ ExtractorReturns("infocasas", scrape_infocasas(args.page, args.q))

ScrapeProperati ==
    /\ pc = "extract" /\ args.source = "properati"
    /\ ExtractorReturns("properati", scrape_properati(args.page, args.q))

ScrapeDoomos ==
    /\ pc = "extract" /\ args.source = "doomos"
    /\ ExtractorReturns("doomos", scrape_doomos(args.page, args.q))

\* lines 617-642: the loop body on what the extractor returned
FilterExtracted ==
    /\ pc = "filter"
    /\ frames' = loop_body(args.source, DataFrameOf(returned[1].rows), args.q, frames, 1)
    /\ pc' = "combine"
    /\ UNCHANGED <<args, ret, returned, heap>>

NextExtract ==
    \/ ScrapeNestoria \/ ScrapeInfocasas \/ ScrapeProperati \/ ScrapeDoomos
    \/ FilterExtracted \/ Combine

SpecExtract == InitExtract /\ [][NextExtract]_vars

Extracted == args.fn = "extract" /\ pc \in {"filter", "combine", "done"}

HostOf(name) ==
    CASE name = "nestoria" -> NestoriaHost
      [] name = "infocasas" -> InfocasasHost
      [] name = "properati" -> ProperatiHost
      [] name = "doomos" -> DoomosHost

\* the link value of a node: that of its anchor, the data-href override first
\* where the extractor reads it; "" when the node has no anchor
LinkValue(node, name) ==
    IF node.a = None THEN <<>>
    ELSE IF name = "nestoria" /\ node.a[1].data_href # <<>> THEN node.a[1].data_href
    ELSE node.a[1].href
AbsoluteLink(node, name) ==
    IF LinkValue(node, name) # <<>> /\ LinkValue(node, name)[1] = "/"
    THEN HostOf(name) \o LinkValue(node, name)
    ELSE LinkValue(node, name)

\* C12: an extractor returns no record with an empty link - a node without
\* anchor, or whose anchor has an empty link value, is skipped - and every other
\* node it selected has its link among the records returned (Nestoria's price
\* exclusion apart).
C12_UnusableSkipped ==
    Extracted =>
        /\ \A r \in 1..Len(returned[1].rows) : returned[1].rows[r]["link"] # <<>>
        /\ \A i \in 1..Len(returned[1].items) :
              /\ LinkValue(returned[1].items[i], args.source) # <<>>
              /\ ~(args.source = "nestoria"
                     /\ early_excluded(returned[1].items[i], args.q.price_min,
                                       args.q.price_max))
              => \E r \in 1..Len(returned[1].rows) :
                    returned[1].rows[r]["link"]
                        = AbsoluteLink(returned[1].items[i], args.source)

\* what C12 says, of the Nestoria extractor alone
NestoriaUnusableSkipped == args.source = "nestoria" => C12_UnusableSkipped

\* C14: the nodes an extractor works on are those of the first of its queries,
\* in priority order, that yields any node - never those of a later query, never
\* a mix - and none when no query yields a node; every record it returns comes
\* from one of these nodes.
C14_FirstQueryWins ==
    Extracted /\ args.page.ok =>
        /\ (\A k \in 1..Len(args.page.queries) : args.page.queries[k] = <<>>)
              => returned[1].items = <<>> /\ returned[1].rows = <<>>
        /\ \A k \in 1..Len(args.page.queries) :
              /\ args.page.queries[k] # <<>>
              /\ \A j \in 1..(k - 1) : args.page.queries[j] = <<>>
              => returned[1].items = args.page.queries[k]
        /\ \A r \in 1..Len(returned[1].rows) :
              \E i \in 1..Len(returned[1].items) :
                  /\ returned[1].rows[r]["precio"] = text_or(returned[1].items[i].price, <<>>)
                  /\ returned[1].rows[r]["link"]
                        = AbsoluteLink(returned[1].items[i], args.source)

\* Nestoria's first two queries found nothing, the third N5 and the fourth two
\* other nodes: the extractor worked on N5 alone and returned its record
C14_Witness ==
    /\ Extracted /\ args.source = "nestoria"
    /\ args.page.queries = << <<>>, <<>>, <<N5>>, <<N4, N1>> >>
    /\ returned[1].items = <<N5>>
    /\ Len(returned[1].rows) = 1 /\ returned[1].rows[1]["titulo"] = <<"E">>

\* the listings of a table, without what the aggregator stamps on them
ListingsIn(df) == {[c \in RequiredColumns |-> df.rows[r][c]] : r \in 1..Len(df.rows)}
\* the final table of a run whose only records are rows, from Nestoria
FinalOf(rows, q) == combine(loop_body("nestoria", DataFrameOf(rows), q, <<>>, 1)).df
\* what the Nestoria loop returns when nothing is excluded for its price: the
\* three tests of lines 123-128 all need a bound that is not None
WithoutExclusion(items) == nestoria_loop(items, None, None, <<>>, {})

\* C16: the Nestoria records of the final table are those the final table would
\* hold if the extractor did not exclude any candidate for its price.
C16_ExclusionIsOptimisation ==
    args.fn = "extract" /\ args.source = "nestoria" /\ pc = "done" =>
        ListingsIn(ret) = ListingsIn(FinalOf(WithoutExclusion(returned[1].items), args.q))

\* the first half of C16: a candidate excluded for its price would not pass the
\* strict filter with the same bounds
ExcludedFailStrict ==
    Extracted /\ args.source = "nestoria" =>
        \A i \in 1..Len(returned[1].items) :
            /\ returned[1].items[i].a # None
            /\ early_excluded(returned[1].items[i], args.q.price_min, args.q.price_max)
            => ~PassesStrict(Normalised(nestoria_record(returned[1].items[i])), args.q)

====
